---- MODULE Spec2Model ----
(***************************************************************************)
(* Verification model of data-symmetry (ds).                               *)
(*                                                                         *)
(* Part 1: the dupekill command (internal/dupekill/dupekill.go):           *)
(* scanTree, hashFiles, findDuplicates, processDuplicates,                  *)
(* removeEmptyDirs and run, over an explicit model of the filesystem.      *)
(*                                                                         *)
(* A path is the sequence of its components (<<"c","d","x">> is c/d/x),    *)
(* which is the form filepath.Join and filepath.Rel leave paths in.        *)
(* A file's content is an abstract byte stream 1..NumContents; its size    *)
(* and its SHA-256 digest are functions of the content.                    *)
(***************************************************************************)
EXTENDS Integers, Sequences, FiniteSets, TLC

\* ------------------------------------------------------------------ bounds
NumContents == 2      \* distinct byte streams a file may hold
MaxHashFail == 1      \* files that cannot be read during one run
MaxEnvFail == 1       \* os.Remove / os.Rename calls the OS refuses in one run

\* ------------------------------------------------------- the path universe
Names == {"a", "b", "c", "d", "e", "m", "r", "x", "y"}

\* Byte order of the component names ('/' sorts below every letter, so the
\* string order of two cleaned paths is the lexicographic order of their
\* component lists).
NameRank == [n \in Names |->
               CASE n = "a" -> 1 [] n = "b" -> 2 [] n = "c" -> 3 [] n = "d" -> 4
                 [] n = "e" -> 5 [] n = "m" -> 6 [] n = "r" -> 7 [] n = "x" -> 8
                 [] n = "y" -> 9]

RECURSIVE PathLess(_, _)
PathLess(p, q) ==
  IF q = <<>> THEN FALSE
  ELSE IF p = <<>> THEN TRUE
  ELSE IF Head(p) = Head(q) THEN PathLess(Tail(p), Tail(q))
  ELSE NameRank[Head(p)] < NameRank[Head(q)]

IsPrefix(p, q) == Len(p) <= Len(q) /\ SubSeq(q, 1, Len(p)) = p
Parent(p) == SubSeq(p, 1, Len(p) - 1)
Base(p) == p[Len(p)]
Join(dir, name) == Append(dir, name)
Rel(root, full) == SubSeq(full, Len(root) + 1, Len(full))
Ancestors(p) == {SubSeq(p, 1, k) : k \in 1..(Len(p) - 1)}

RefDir == <<"r">>
CleanDir == <<"c">>
SubDir == <<"c", "d">>
SubSubDir == <<"c", "d", "e">>
MoveDir == <<"m">>

CandidateFiles == {<<"r", "x">>, <<"c", "x">>, <<"c", "d", "x">>, <<"c", "d", "e", "y">>}
AlwaysDirs == {RefDir, CleanDir, MoveDir}
OptionalDirs == {{}, {SubDir, SubSubDir}}
\* The roots given on the command line: a reference tree apart from the
\* cleanup trees or inside one, and cleanup lists of one root, of nested
\* roots and of a repeated root.
ReferenceRoots == {RefDir, SubDir}
CleanupLists == {<<CleanDir>>, <<SubDir>>, <<CleanDir, SubDir>>, <<CleanDir, CleanDir>>}

Contents == 1..NumContents
\* info.Size(): content 1 is the shortest; contents 2 and 3 have the same
\* length and differ in their bytes.
SizeOf(c) == (c \div 2) + 1
\* The zero value of file.hash (the empty string).
NoHash == 0
\* fmt.Sprintf("%x", h.Sum(nil)): distinct contents have distinct digests.
Sha256(c) == 100 + c

Modes == {"path+name", "path+hash", "hash"}
\* --out: absent, or a path in a directory that does not exist. (A path that
\* os.Create accepts only changes where the lines of out are written.)
NoOutPath == ""
OutPaths == {NoOutPath, "/missing/report.txt"}
\* os.Create(outPath) returns an error.
CreateFails(path) == path = "/missing/report.txt"
NoMove == <<>>
EmptyPath == <<>>

\* ---------------------------------------------------------------- state
VARIABLES
  files,            \* the filesystem: path of every regular file |-> its content
  dirs,             \* the filesystem: the set of directories that exist
  files0, dirs0,    \* the filesystem as it was when the command started
  reference,        \* --reference
  cleanup,          \* --cleanup (a list of roots)
  mode,             \* --mode
  moveTo,           \* --move-to (NoMove when absent)
  keepEmptyDirs,    \* --keep-empty-dirs
  outPath,          \* --out ("" when absent), of dupekill and of twincheck
  pc,               \* position of run
  referenceFiles,   \* run: the records of referenceFiles (a set: see scanTree)
  allCleanupFiles,  \* run: the records of allCleanupFiles, one set per cleanup root
  duplicates,       \* run: duplicates
  linesRead,        \* number of reads of standard input made so far
  response,         \* the normalised line the last read returned (EOF at end of input)
  next,             \* processDuplicates: index of the next cleanup entry to process
  failed,           \* processDuplicates: failed
  ops,              \* the os.Remove / os.Rename calls made so far
  out,              \* the lines written by output / fmt.Println so far
  ret,              \* what run returned ("none" while it is running)
  unreadableFiles,  \* twincheck: the files that cannot be opened for reading
  driveA, driveB,   \* twincheck: -a and -b
  reportMode,       \* twincheck: --mode
  useHashFlag,      \* twincheck: --hash
  hashMode,         \* twincheck: --hash-mode, as GetString returns it
  hashModeGiven,    \* twincheck: --hash-mode is on the command line
  reported,         \* twincheck: per tier, what the run of that tier computed
  unlistable,       \* the directories os.ReadDir fails on
  scanner,          \* the scanning function under study
  scanRoot,         \* its argument
  scanTasks,        \* the scanDir goroutines that have not returned
  scanTreeFiles,    \* scanTree: the slice files
  fileMap,          \* getFilesConcurrent: the map files
  groups,           \* scanBySize: the map groups
  wg,               \* the scanner's WaitGroup counter
  mu,               \* the scanner's mutex: the goroutine holding it
  scanRuns,         \* scans of scanRoot completed so far
  firstScan,        \* the (relative path, size) pairs of the first completed scan
  hasher,           \* the hashFiles under study
  hashInput,        \* hashFiles: the files requested (absolute paths, in order)
  fed,              \* hashFiles: jobs the feeder has sent
  jobsChan,         \* hashFiles: the channel jobs
  jobsClosed,       \* hashFiles: jobs is closed
  workers,          \* hashFiles: per worker, where it is and the job it holds
  resultsChan,      \* hashFiles: the channel results
  resultsClosed,    \* hashFiles: results is closed
  hashes,           \* hashFiles: the hash fields (dupekill) / the map hashes (twincheck)
  hashWrites,       \* per job, the writes made to its entry of hashes
  taken,            \* per job, the times a worker received it from jobs
  junkDir,          \* junksweep: --dir
  junkFound,        \* junksweep: files, the result of scanFilesConcurrent
  junkQueue,        \* junksweep: the files of fileCh no worker has received yet
  sweepers,         \* scanFilesConcurrent: per worker, where it is and what it holds
  bfs,              \* scanFilesConcurrent: the feeder's slice dirs
  feeder,           \* scanFilesConcurrent: where the feeder is and its current directory
  dirCh,            \* scanFilesConcurrent: the channel dirCh
  fileCh,           \* scanFilesConcurrent: the channel fileCh
  fileChClosed,     \* scanFilesConcurrent: fileCh is closed
  force,            \* cachewhack: --force
  empty,            \* cachewhack: --empty
  targets,          \* cachewhack: run's targets, the result of findWhackable
  whackLeft,        \* cachewhack: the targets whose goroutine of whack has not run yet
  scanned           \* cachewhack: scanner.Scan() returned true at the prompt

vars == <<files, dirs, files0, dirs0, reference, cleanup, mode, moveTo, keepEmptyDirs, outPath,
          pc, referenceFiles, allCleanupFiles, duplicates, linesRead, response,
          next, failed, ops, out, ret,
          unreadableFiles, driveA, driveB, reportMode, useHashFlag, hashMode, hashModeGiven,
          reported,
          unlistable, scanner, scanRoot, scanTasks, scanTreeFiles, fileMap, groups, wg, mu,
          scanRuns, firstScan,
          hasher, hashInput, fed, jobsChan, jobsClosed, workers, resultsChan, resultsClosed,
          hashes, hashWrites, taken, junkDir, junkFound, junkQueue,
          sweepers, bfs, feeder, dirCh, fileCh, fileChClosed,
          force, empty, targets, whackLeft, scanned>>

fsVars == <<files, dirs>>
twinVars == <<unreadableFiles, driveA, driveB, reportMode, useHashFlag, hashMode, hashModeGiven,
              reported>>
scanVars == <<unlistable, scanner, scanRoot, scanTasks, scanTreeFiles, fileMap, groups, wg, mu,
              scanRuns, firstScan>>
hashVars == <<hasher, hashInput, fed, jobsChan, jobsClosed, workers, resultsChan, resultsClosed,
              hashes, hashWrites, taken>>
junkVars == <<junkDir, junkFound, junkQueue>>
sweepVars == <<sweepers, bfs, feeder, dirCh, fileCh, fileChClosed>>
cacheVars == <<force, empty, targets, whackLeft, scanned>>
auxVars == <<scanVars, hashVars, junkVars, sweepVars, cacheVars>>
flagVars == <<files0, dirs0, reference, cleanup, mode, moveTo, keepEmptyDirs, outPath>>

\* ------------------------------------------------------------ filesystem
Filesystems == UNION {[S -> Contents] : S \in SUBSET CandidateFiles}
DirsOf(F, extra) == AlwaysDirs \cup extra \cup UNION {Ancestors(p) : p \in DOMAIN F}

\* A fault: a listing that leaves out the regular files.
ReadDirDirsOnly(F, D, dir) == {p \in D : Len(p) = Len(dir) + 1 /\ IsPrefix(dir, p)}

\* os.ReadDir(dir): an error when dir cannot be listed, else its entries.
ReadDirOk(D, dir) == dir \in D
ReadDir(F, D, dir) == {p \in DOMAIN F \cup D : Len(p) = Len(dir) + 1 /\ IsPrefix(dir, p)}

Restrict(F, S) == [p \in S |-> F[p]]
\* A fault: a delete that reports success and leaves the file.
RemoveFileKeeping(F, p) == F

\* os.Remove(path) of a regular file that exists.
RemoveFile(F, p) == Restrict(F, DOMAIN F \ {p})
\* os.Rename(src, dest) of a regular file: dest is replaced when it exists.
RenameFile(F, src, dest) ==
  [p \in (DOMAIN F \ {src}) \cup {dest} |-> IF p = dest THEN F[src] ELSE F[p]]

\* --------------------------------------------------------------- scanTree
FileRec(F, root, p) ==
  [root |-> root, rel |-> Rel(root, p), abs |-> p, size |-> SizeOf(F[p]), hash |-> NoHash]

\* The files scanDir reaches from root: those below root whose directories
\* can all be listed.
Reached(F, D, root) ==
  {p \in DOMAIN F : /\ IsPrefix(root, p)
                    /\ \A k \in Len(root)..(Len(p) - 1) : ReadDirOk(D, SubSeq(p, 1, k))}

\* scanTree(root): the records of the returned slice. The slice's order is
\* that of the goroutines' appends; it is resolved where the slice is ranged
\* over (Interleavings, in Analyse).
scanTree(F, D, root) == {FileRec(F, root, p) : p \in Reached(F, D, root)}

\* p is appended before q in every interleaving of the scanDir goroutines:
\* p lies directly in a directory above q, and ReadDir's sorted order puts p
\* before the entry through which q is reached.
AppendedBefore(p, q) ==
  /\ p # q
  /\ IsPrefix(Parent(p), q)
  /\ NameRank[Base(p)] < NameRank[q[Len(p)]]

\* Every order in which one scanTree call can have appended the records S.
RECURSIVE Interleavings(_)
Interleavings(S) ==
  IF S = {} THEN {<<>>}
  ELSE UNION {{<<f>> \o t : t \in Interleavings(S \ {f})} :
                f \in {m \in S : \A g \in S : ~AppendedBefore(g.abs, m.abs)}}

\* One of the orders of Interleavings(S).
RECURSIVE OneInterleaving(_)
OneInterleaving(S) ==
  IF S = {} THEN <<>>
  ELSE LET f == CHOOSE m \in S : \A g \in S : ~AppendedBefore(g.abs, m.abs)
       IN <<f>> \o OneInterleaving(S \ {f})

\* allCleanupFiles = append(allCleanupFiles, cleanupFiles...) over the roots.
\* findDuplicates reads allCleanupFiles only to collect, per key, the records
\* it then sorts; sortSlice returns every sorted order of a list whatever the
\* order it is given in, so one interleaving per root stands for all.
RECURSIVE AppendAll(_)
AppendAll(perRoot) ==
  IF perRoot = <<>> THEN <<>>
  ELSE OneInterleaving(Head(perRoot)) \o AppendAll(Tail(perRoot))

\* -------------------------------------------------------------- hashFiles
\* computeHash(path): the hex SHA-256 digest of the file's bytes.
computeHash(F, path) == Sha256(F[path])

\* A fault: a record whose computeHash call failed gets the digest of the
\* bytes read before the failure (none).
hashFilesPartialDigest(F, S, failing) ==
  {IF f \in failing THEN [f EXCEPT !.hash = Sha256(0)]
   ELSE [f EXCEPT !.hash = computeHash(F, f.abs)] : f \in S}

\* hashFiles(files): every record whose computeHash call succeeded gets its
\* digest; a record in failing keeps the zero value of its hash field.
hashFiles(F, S, failing) ==
  {IF f \in failing THEN f ELSE [f EXCEPT !.hash = computeHash(F, f.abs)] : f \in S}

\* --------------------------------------------------------- findDuplicates
NoKey == <<>>

\* A fault: path+hash keyed by the digest alone.
MatchKeyIgnoringPath(f, m) ==
  CASE m = "path+name" -> <<f.rel, f.size>>
    [] m = "path+hash" -> IF f.hash # NoHash THEN <<f.hash>> ELSE NoKey
    [] m = "hash" -> IF f.hash # NoHash THEN <<f.hash>> ELSE NoKey

\* The map key findDuplicates builds for a record; NoKey is the empty string.
MatchKey(f, m) ==
  CASE m = "path+name" -> <<f.rel, f.size>>
    [] m = "path+hash" -> IF f.hash # NoHash THEN <<f.rel, f.hash>> ELSE NoKey
    [] m = "hash" -> IF f.hash # NoHash THEN <<f.hash>> ELSE NoKey

Max(S) == CHOOSE x \in S : \A y \in S : y <= x

\* referenceIndex: a later record of referenceFiles replaces an earlier one
\* with the same key.
referenceIndex(refs, m) ==
  LET keyed == {i \in 1..Len(refs) : MatchKey(refs[i], m) # NoKey}
  IN [k \in {MatchKey(refs[i], m) : i \in keyed} |->
        refs[Max({i \in keyed : MatchKey(refs[i], m) = k})]]

RECURSIVE SelectKey(_, _, _)
SelectKey(fs, m, k) ==
  IF fs = <<>> THEN <<>>
  ELSE IF MatchKey(Head(fs), m) = k THEN <<Head(fs)>> \o SelectKey(Tail(fs), m, k)
  ELSE SelectKey(Tail(fs), m, k)

\* A fault: a later cleanup record replaces its group's list instead of
\* being appended to it.
duplicatesMapLastOnly(refs, cleans, m) ==
  LET index == referenceIndex(refs, m)
      hit == {k \in DOMAIN index : \E i \in 1..Len(cleans) : MatchKey(cleans[i], m) = k}
  IN [k \in hit |->
        [reference |-> index[k],
         cleanup |-> <<SelectKey(cleans, m, k)[Len(SelectKey(cleans, m, k))]>>]]

\* The duplicates map: one entry per key of referenceIndex that a cleanup
\* record has, its cleanup list in the order of cleanupFiles.
duplicatesMap(refs, cleans, m) ==
  LET index == referenceIndex(refs, m)
      hit == {k \in DOMAIN index : \E i \in 1..Len(cleans) : MatchKey(cleans[i], m) = k}
  IN [k \in hit |-> [reference |-> index[k], cleanup |-> SelectKey(cleans, m, k)]]

RemoveAt(s, i) == SubSeq(s, 1, i - 1) \o SubSeq(s, i + 1, Len(s))

\* A fault: the comparison reversed, giving the descending orders.
RECURSIVE sortSliceDescending(_, _)
sortSliceDescending(items, keys) ==
  IF items = <<>> THEN {<<>>}
  ELSE UNION {{<<items[i]>> \o t :
                 t \in sortSliceDescending(RemoveAt(items, i), RemoveAt(keys, i))} :
                i \in {i \in 1..Len(items) : \A j \in 1..Len(items) : ~PathLess(keys[i], keys[j])}}

\* sort.Slice(items, less) with less comparing the paths keys[i]: every
\* sorted order of items (sort.Slice is not stable).
RECURSIVE sortSlice(_, _)
sortSlice(items, keys) ==
  IF items = <<>> THEN {<<>>}
  ELSE UNION {{<<items[i]>> \o t : t \in sortSlice(RemoveAt(items, i), RemoveAt(keys, i))} :
                i \in {i \in 1..Len(items) : \A j \in 1..Len(items) : ~PathLess(keys[j], keys[i])}}

\* One order in which ranging over a map can visit its keys (each slice
\* built from it is sorted by sortSlice, which returns every sorted order
\* whatever the order it is given).
RECURSIVE MapOrder(_)
MapOrder(K) ==
  IF K = {} THEN <<>>
  ELSE LET k == CHOOSE x \in K : TRUE IN <<k>> \o MapOrder(K \ {k})

AbsOf(fs) == [i \in 1..Len(fs) |-> fs[i].abs]
ReferenceAbsOf(ds) == [i \in 1..Len(ds) |-> ds[i].reference.abs]

\* Lines 224-229: the slices the loop over the duplicates map can build,
\* each group's cleanup list sorted by abs.
RECURSIVE GroupsOf(_, _)
GroupsOf(dmap, order) ==
  IF order = <<>> THEN {<<>>}
  ELSE LET d == dmap[Head(order)]
       IN {<<[reference |-> d.reference, cleanup |-> c]>> \o t :
             c \in sortSlice(d.cleanup, AbsOf(d.cleanup)), t \in GroupsOf(dmap, Tail(order))}

\* findDuplicates(referenceFiles, cleanupFiles, mode): every slice it can
\* return (lines 231-233: the groups sorted by reference.abs).
findDuplicates(refs, cleans, m) ==
  LET dmap == duplicatesMap(refs, cleans, m)
  IN UNION {sortSlice(r, ReferenceAbsOf(r)) : r \in GroupsOf(dmap, MapOrder(DOMAIN dmap))}

\* ------------------------------------------------------ processDuplicates
RECURSIVE Concat(_)
Concat(ss) == IF ss = <<>> THEN <<>> ELSE Head(ss) \o Concat(Tail(ss))

\* A fault: the loops visit each group's reference as well.
EntriesWithReference(dups) ==
  Concat([i \in 1..Len(dups) |-> <<dups[i].reference>> \o dups[i].cleanup])

\* The cleanup records of all groups, in the order the loops of lines
\* 281-282 visit them.
Entries(dups) == Concat([i \in 1..Len(dups) |-> dups[i].cleanup])
totalDupes(dups) == Len(Entries(dups))

ActionWord(mv) == IF mv # NoMove THEN "Move" ELSE "Delete"

\* Line 253.
WouldRemoveLine(dups) == <<"Would remove", totalDupes(dups), Len(dups)>>

\* Lines 256-267: the preview of one group, then of all groups.
GroupLines(dups, i, mv) ==
  <<<<"Group", i>>, <<"Reference", dups[i].reference.abs>>>>
    \o [j \in 1..Len(dups[i].cleanup) |-> <<ActionWord(mv), dups[i].cleanup[j].abs>>]

DryRunLines(dups, mv) ==
  <<WouldRemoveLine(dups)>>
    \o Concat([i \in 1..Len(dups) |-> GroupLines(dups, i, mv)])
    \o <<<<"Dry-run enabled. No files affected.">>>>

\* ---------------------------------------------------------------- stdin
EOF == "<EOF>"
Lines == {"y", "Y ", "yes", "n", ""}
\* strings.ToLower(strings.TrimSpace(scanner.Text()))
TrimLower(line) == IF line = "Y " THEN "y" ELSE line

\* Line 422 and line 275: the responses that let the run go on.
RunProceeds(resp) == resp = "y" \/ resp = "yes"
ProcessProceeds(resp) == resp = "y"

\* -------------------------------------------------------- removeEmptyDirs
RECURSIVE SortByName(_)
SortByName(S) ==
  IF S = {} THEN <<>>
  ELSE LET first == CHOOSE p \in S : \A q \in S : NameRank[Base(p)] <= NameRank[Base(q)]
       IN <<first>> \o SortByName(S \ {first})

NothingRemoved(D) == [dirs |-> D, lines |-> <<>>, removed |-> 0]

\* Line 338: the condition under which a directory read as empty is removed.
Removable(dir) == dir # EmptyPath

RECURSIVE removeEmptyDirsRecursive(_, _, _, _)
RECURSIVE RemoveInSubdirs(_, _, _, _)

\* Lines 324-329: the loop over the subdirectories read at line 317.
RemoveInSubdirs(F, acc, subs, dryRun) ==
  IF subs = <<>> THEN acc
  ELSE LET r == removeEmptyDirsRecursive(F, acc.dirs, Head(subs), dryRun)
       IN RemoveInSubdirs(F, [dirs |-> r.dirs, lines |-> acc.lines \o r.lines,
                               removed |-> acc.removed + r.removed],
                          Tail(subs), dryRun)

removeEmptyDirsRecursive(F, D, dir, dryRun) ==
  IF ~ReadDirOk(D, dir) THEN NothingRemoved(D)
  ELSE LET subs == SortByName({p \in ReadDir(F, D, dir) : p \in D})
           sub == RemoveInSubdirs(F, NothingRemoved(D), subs, dryRun)
       IN IF ReadDir(F, sub.dirs, dir) = {} /\ Removable(dir)
          THEN IF dryRun
               THEN [sub EXCEPT !.lines = Append(@, <<"Would remove empty directory", dir>>)]
               ELSE [dirs |-> sub.dirs \ {dir},
                     lines |-> Append(sub.lines, <<"Removed empty directory", dir>>),
                     removed |-> sub.removed + 1]
          ELSE sub

RECURSIVE removeEmptyDirs(_, _, _, _)
removeEmptyDirs(F, D, roots, dryRun) ==
  IF roots = <<>> THEN [dirs |-> D, lines |-> <<>>]
  ELSE LET r == removeEmptyDirsRecursive(F, D, Head(roots), dryRun)
           rest == removeEmptyDirs(F, r.dirs, Tail(roots), dryRun)
       IN [dirs |-> rest.dirs,
           lines |-> <<<<"Cleaning empty directories in", Head(roots)>>>> \o r.lines
                       \o <<<<"Removed empty directories", r.removed>>>> \o rest.lines]

\* ------------------------------------------------------------------- Init
RECURSIVE SubsetsUpTo(_, _)
SubsetsUpTo(S, n) ==
  IF n = 0 THEN {{}}
  ELSE LET smaller == SubsetsUpTo(S, n - 1)
       IN smaller \cup {T \cup {x} : T \in smaller, x \in S}

Running == [returned |-> FALSE, err |-> <<>>]
ReturnNil == [returned |-> TRUE, err |-> <<>>]
ReturnErr(e) == [returned |-> TRUE, err |-> e]

\* twincheck is not running: its flags at the defaults of its init().
Tiers == {"off", "smart", "strict"}
NoReport == [ran |-> FALSE, onlyA |-> <<>>, onlyB |-> <<>>, hashed |-> {}]
\* No scanner is under study: every directory can be listed.
ScanIdle ==
  /\ unlistable = {}
  /\ scanner = ""
  /\ scanRoot = EmptyPath
  /\ scanTasks = [d \in {} |-> 0]
  /\ scanTreeFiles = <<>>
  /\ fileMap = [p \in {} |-> 0]
  /\ groups = [sz \in {} |-> <<>>]
  /\ wg = 0
  /\ mu = EmptyPath
  /\ scanRuns = 0
  /\ firstScan = {}
\* No hashFiles call is under study.
HashIdle ==
  /\ hasher = ""
  /\ hashInput = <<>>
  /\ fed = 0
  /\ jobsChan = <<>>
  /\ jobsClosed = FALSE
  /\ workers = <<>>
  /\ resultsChan = <<>>
  /\ resultsClosed = FALSE
  /\ hashes = <<>>
  /\ hashWrites = <<>>
  /\ taken = <<>>
\* junksweep is not running.
JunkIdle ==
  /\ junkDir = EmptyPath
  /\ junkFound = <<>>
  /\ junkQueue = {}
\* scanFilesConcurrent is not under study.
SweepIdle ==
  /\ sweepers = <<>>
  /\ bfs = <<>>
  /\ feeder = [st |-> "done", current |-> EmptyPath]
  /\ dirCh = <<>>
  /\ fileCh = <<>>
  /\ fileChClosed = FALSE
\* cachewhack is not running: its flags at the defaults of its init().
CacheIdle ==
  /\ force = FALSE
  /\ empty = FALSE
  /\ targets = <<>>
  /\ whackLeft = {}
  /\ scanned = FALSE
AuxIdle == ScanIdle /\ HashIdle /\ JunkIdle /\ SweepIdle /\ CacheIdle

TwinIdle ==
  /\ unreadableFiles = {}
  /\ driveA = EmptyPath
  /\ driveB = EmptyPath
  /\ reportMode = "all"
  /\ useHashFlag = FALSE
  /\ hashMode = "off"
  /\ hashModeGiven = FALSE
  /\ reported = [t \in Tiers |-> NoReport]

\* The process starts on some filesystem, its flags at the defaults of init().
Init ==
  /\ files \in Filesystems
  /\ \E extra \in OptionalDirs : dirs = DirsOf(files, extra)
  /\ files0 = files
  /\ dirs0 = dirs
  /\ reference = EmptyPath
  /\ cleanup = <<>>
  /\ mode = "hash"
  /\ moveTo = NoMove
  /\ keepEmptyDirs = FALSE
  /\ outPath = NoOutPath
  /\ pc = "start"
  /\ referenceFiles = {}
  /\ allCleanupFiles = <<>>
  /\ duplicates = <<>>
  /\ linesRead = 0
  /\ response = ""
  /\ next = 1
  /\ failed = 0
  /\ ops = <<>>
  /\ out = <<>>
  /\ ret = Running
  /\ TwinIdle
  /\ AuxIdle

\* ----------------------------------------------------------------- run
\* Lines 382-399 and 157-164: what the scans and findDuplicates print.
ScanLines(ref, roots, refs, perRoot, m) ==
  <<<<"Scanning reference tree", ref>>, <<"Found files in reference tree", Cardinality(refs)>>>>
    \o Concat([i \in 1..Len(roots) |->
                 <<<<"Scanning cleanup tree", roots[i]>>,
                   <<"Found files in cleanup tree", Cardinality(perRoot[i])>>>>])
    \o <<<<"Finding duplicates", m>>>>
    \o (IF m # "path+name" THEN <<<<"Computing file hashes...">>>> ELSE <<>>)

\* The files that computeHash cannot open or read (every call made on such
\* a file fails): none when the mode does not hash, else up to MaxHashFail of
\* the scanned files.
Unreadable(m, refs, perRoot) ==
  IF m = "path+name" THEN {{}}
  ELSE SubsetsUpTo({f.abs : f \in refs \cup UNION {perRoot[i] : i \in 1..Len(perRoot)}},
                   MaxHashFail)

\* Lines 160-164.
HashIfNeeded(F, m, S, unreadable) ==
  IF m = "path+name" THEN S ELSE hashFiles(F, S, {f \in S : f.abs \in unreadable})

\* A fault: the prompt without the dry run.
PreviewLinesNoDryRun(dups, mv) == <<<<"Proceed with operations? (y/N): ">>>>

\* Lines 407-414: the dry run of processDuplicates, then the prompt.
PreviewLines(dups, mv) ==
  <<<<"=== DRY RUN RESULTS ===">>>> \o DryRunLines(dups, mv)
    \o <<<<"Proceed with operations? (y/N): ">>>>

\* run, lines 352-414: read the flags, scan the reference tree and every
\* cleanup tree, hash (unless path+name), find the duplicates; return when
\* there are none, else show the dry run and prompt.
Analyse ==
  /\ pc = "start"
  /\ reference' \in ReferenceRoots
  /\ cleanup' \in CleanupLists
  /\ mode' \in Modes
  /\ moveTo' \in {NoMove, MoveDir}
  /\ keepEmptyDirs' \in BOOLEAN
  /\ outPath' \in {o \in OutPaths : ~CreateFails(o)}
  /\ \E refs \in {scanTree(files, dirs, reference')},
        perRoot \in {[i \in 1..Len(cleanup') |-> scanTree(files, dirs, cleanup'[i])]} :
       \E unreadable \in Unreadable(mode', refs, perRoot) :
          /\ referenceFiles' = HashIfNeeded(files, mode', refs, unreadable)
          /\ allCleanupFiles' = [i \in 1..Len(perRoot) |->
                                   HashIfNeeded(files, mode', perRoot[i], unreadable)]
          /\ \E cleans \in {AppendAll(allCleanupFiles')}, refOrder \in Interleavings(referenceFiles') :
               duplicates' \in findDuplicates(refOrder, cleans, mode')
          /\ out' = out \o ScanLines(reference', cleanup', refs, perRoot, mode')
                        \o <<<<"Found duplicate groups", Len(duplicates')>>>>
                        \o (IF duplicates' = <<>> THEN <<<<"No duplicates found.">>>>
                            ELSE PreviewLines(duplicates', moveTo'))
  /\ pc' = IF duplicates' = <<>> THEN "done" ELSE "confirm"
  /\ ret' = IF duplicates' = <<>> THEN ReturnNil ELSE ret
  /\ UNCHANGED <<twinVars, auxVars>>
  /\ UNCHANGED <<fsVars, files0, dirs0, linesRead, response, next, failed, ops>>

\* The values the user may give to --mode and --cleanup (--reference and
\* --cleanup are marked required, line 457-458).
ModeValues == Modes \cup {"size"}
CleanupValues == CleanupLists \cup {<<>>}

\* run, lines 360-377: the error run returns before it scans anything.
SetupError(m, roots, o) ==
  IF m \notin Modes THEN <<"invalid mode", m>>
  ELSE IF Len(roots) = 0 THEN <<"at least one cleanup directory required">>
  ELSE IF CreateFails(o) THEN <<"open", o>>
  ELSE <<>>

\* run, lines 352-377, when the flags are rejected: nothing is scanned,
\* printed or changed.
RejectFlags ==
  /\ pc = "start"
  /\ reference' \in ReferenceRoots
  /\ cleanup' \in CleanupValues
  /\ mode' \in ModeValues
  /\ moveTo' \in {NoMove, MoveDir}
  /\ keepEmptyDirs' \in BOOLEAN
  /\ outPath' \in OutPaths
  /\ SetupError(mode', cleanup', outPath') # <<>>
  /\ ret' = ReturnErr(SetupError(mode', cleanup', outPath'))
  /\ pc' = "done"
  /\ UNCHANGED <<twinVars, auxVars>>
  /\ UNCHANGED <<fsVars, files0, dirs0, referenceFiles, allCleanupFiles, duplicates, linesRead, response,
                 next, failed, ops, out>>

\* run, lines 415-429, and processDuplicates, lines 248-272: read one line;
\* abort unless it is y or yes, else enter processDuplicates up to its prompt.
Confirm ==
  /\ pc = "confirm"
  /\ \E line \in Lines \cup {EOF} :
       LET resp == IF line = EOF THEN EOF ELSE TrimLower(line)
       IN /\ response' = resp
          /\ linesRead' = linesRead + 1
          /\ IF line = EOF \/ ~RunProceeds(resp)
             THEN /\ out' = Append(out, <<"Aborted.">>)
                  /\ ret' = ReturnNil
                  /\ pc' = "done"
             ELSE /\ out' = out \o <<<<"=== DELETION OPERATIONS ===">>, WouldRemoveLine(duplicates),
                                    <<"This will", ActionWord(moveTo), totalDupes(duplicates)>>>>
                  /\ ret' = ret
                  /\ pc' = "confirmProcess"
  /\ UNCHANGED <<twinVars, auxVars>>
  /\ UNCHANGED <<fsVars, flagVars, referenceFiles, allCleanupFiles, duplicates, next, failed, ops>>

\* processDuplicates, lines 274-280: read one line; return nil unless it is y.
ConfirmProcess ==
  /\ pc = "confirmProcess"
  /\ \E line \in Lines \cup {EOF} :
       LET resp == IF line = EOF THEN EOF ELSE TrimLower(line)
       IN /\ response' = resp
          /\ linesRead' = linesRead + 1
          /\ IF line = EOF \/ ~ProcessProceeds(resp)
             THEN /\ out' = Append(out, <<"Aborted.">>)
                  /\ pc' = "processed"
             ELSE /\ out' = out
                  /\ pc' = "process"
  /\ next' = 1
  /\ failed' = 0
  /\ UNCHANGED <<twinVars, auxVars>>
  /\ UNCHANGED <<fsVars, flagVars, referenceFiles, allCleanupFiles, duplicates, ops, ret>>

\* A fault: the loops stop at the first failed call.
LoopDoneOnFailure(nxt, total, nfailed) == nxt > total \/ nfailed > 0

\* Lines 281-282: the loops end when every cleanup entry has been visited.
LoopDone(nxt, total, nfailed) == nxt > total

\* A fault: a single failure is not reported.
FailedMoreThanOnce(nfailed) == nfailed > 1

\* Line 298.
Failed(nfailed) == nfailed > 0

\* A fault: the flag is not consulted.
PruneAlways(keep) == TRUE

\* Line 434.
PruneEnabled(keep) == ~keep

EnvFailures(log) == Cardinality({i \in 1..Len(log) : log[i].err = "EPERM"})

\* processDuplicates, lines 282-295: one pass of the inner loop. The call
\* fails when the file is gone, and may fail when the OS refuses it.
ProcessOne ==
  /\ pc = "process"
  /\ ~LoopDone(next, totalDupes(duplicates), failed)
  /\ LET f == Entries(duplicates)[next]
         dest == IF moveTo # NoMove THEN Join(moveTo, Base(f.abs)) ELSE EmptyPath
         call == [op |-> IF moveTo # NoMove THEN "Rename" ELSE "Remove", path |-> f.abs, dest |-> dest]
     IN \E err \in {"", "ENOENT", "EPERM"} :
          /\ err = "ENOENT" <=> f.abs \notin DOMAIN files
          /\ err = "EPERM" => EnvFailures(ops) < MaxEnvFail
          /\ ops' = Append(ops, [op |-> call.op, path |-> call.path, dest |-> call.dest, err |-> err])
          /\ IF err = ""
             THEN /\ files' = IF moveTo # NoMove THEN RenameFile(files, f.abs, dest)
                              ELSE RemoveFile(files, f.abs)
                  /\ UNCHANGED <<failed, out>>
             ELSE /\ out' = Append(out, <<"Failed to process", f.abs>>)
                  /\ failed' = failed + 1
                  /\ files' = files
  /\ next' = next + 1
  /\ UNCHANGED <<twinVars, auxVars>>
  /\ UNCHANGED <<dirs, flagVars, pc, referenceFiles, allCleanupFiles, duplicates, linesRead, response, ret>>

\* processDuplicates, lines 298-303, and run, lines 429-431.
ProcessDone ==
  /\ pc = "process"
  /\ LoopDone(next, totalDupes(duplicates), failed)
  /\ IF Failed(failed)
     THEN /\ ret' = ReturnErr(<<failed, "operations failed">>)
          /\ pc' = "done"
          /\ out' = out
     ELSE /\ out' = Append(out, <<"Successfully processed", totalDupes(duplicates)>>)
          /\ pc' = "processed"
          /\ ret' = ret
  /\ UNCHANGED <<twinVars, auxVars>>
  /\ UNCHANGED <<fsVars, flagVars, referenceFiles, allCleanupFiles, duplicates, linesRead, response,
                 next, failed, ops>>

\* run, lines 433-441: the empty-directory cleanup unless --keep-empty-dirs.
EmptyDirCleanup ==
  /\ pc = "processed"
  /\ IF PruneEnabled(keepEmptyDirs)
     THEN LET r == removeEmptyDirs(files, dirs, cleanup, FALSE)
          IN /\ dirs' = r.dirs
             /\ out' = out \o <<<<"=== Empty Directory Cleanup ===">>>> \o r.lines \o <<<<"Done.">>>>
     ELSE /\ dirs' = dirs
          /\ out' = Append(out, <<"Done.">>)
  /\ ret' = ReturnNil
  /\ pc' = "done"
  /\ UNCHANGED <<twinVars, auxVars>>
  /\ UNCHANGED <<files, flagVars, referenceFiles, allCleanupFiles, duplicates, linesRead, response,
                 next, failed, ops>>

Next ==
  \/ RejectFlags
  \/ Analyse
  \/ Confirm
  \/ ConfirmProcess
  \/ ProcessOne
  \/ ProcessDone
  \/ EmptyDirCleanup

Spec == Init /\ [][Next]_vars

\* ================================================================ claims
Range(q) == {q[k] : k \in 1..Len(q)}
CleanupRecords == UNION {allCleanupFiles[i] : i \in 1..Len(allCleanupFiles)}
\* <<i, j>>: the j-th cleanup entry of the i-th group of duplicates.
GroupEntries ==
  UNION {{<<i, j>> : j \in 1..Len(duplicates[i].cleanup)} : i \in 1..Len(duplicates)}
\* The paths shown as cleanup entries by the dry run.
PreviewedPaths == {out[k][2] : k \in {n \in 1..Len(out) : out[n][1] \in {"Delete", "Move"}}}
Succeeded == {k \in 1..Len(ops) : ops[k].err = ""}
FailedOps == {k \in 1..Len(ops) : ops[k].err # ""}
\* The second prompt was answered y: processDuplicates ran its loops.
Confirmed == linesRead = 2 /\ response = "y"
\* The loops of processDuplicates have ended.
LoopsEnded ==
  Confirmed /\ (pc \in {"processed", "done"} \/ (pc = "process" /\ next > Cardinality(GroupEntries)))
\* Two records are equivalent under the selected mode.
SameKey(r, c) ==
  CASE mode = "path+name" -> r.rel = c.rel /\ r.size = c.size
    [] mode = "path+hash" -> r.rel = c.rel /\ r.hash = c.hash /\ r.hash # NoHash
    [] mode = "hash" -> r.hash = c.hash /\ r.hash # NoHash

\* C1: no file that the scan of the reference root yields is deleted or
\* moved: every path processDuplicates removes or renames is not a file of
\* the reference tree.
C1_ReferenceNeverTouched ==
  \A k \in Succeeded : ops[k].path \notin {f.abs : f \in referenceFiles}

\* C2: when the answer at a confirmation prompt is not affirmative, the run
\* has no side effects: no file is deleted or moved, no directory is removed
\* and no files are reported as processed.
C2_DeclinedHasNoSideEffects ==
  (linesRead >= 1 /\ response \notin {"y", "yes"}) =>
     /\ files = files0
     /\ dirs = dirs0
     /\ ops = <<>>
     /\ \A k \in 1..Len(out) : out[k][1] # "Successfully processed"

\* The dry run in out shows every group of duplicates: its reference, then
\* each of its cleanup entries.
PreviewShown ==
  \E h \in 1..Len(out) :
    /\ out[h][1] = "=== DRY RUN RESULTS ==="
    /\ \A i \in 1..Len(duplicates) :
         \E g \in (h + 1)..Len(out) :
           /\ out[g][1] = "Group" /\ out[g][2] = i
           /\ g + 1 + Len(duplicates[i].cleanup) <= Len(out)
           /\ out[g + 1][1] = "Reference" /\ out[g + 1][2] = duplicates[i].reference.abs
           /\ \A j \in 1..Len(duplicates[i].cleanup) :
                /\ out[g + 1 + j][1] \in {"Delete", "Move"}
                /\ out[g + 1 + j][2] = duplicates[i].cleanup[j].abs

\* C3: when the first delete or move is made, the complete dry-run preview
\* has been emitted and a confirmation has been read.
C3_PreviewBeforeMutation ==
  [][(ops = <<>> /\ ops' # <<>>) => (PreviewShown /\ linesRead >= 1)]_vars

C3_Witness == ops # <<>> /\ ops[1].err = "" /\ Len(duplicates) >= 2

\* C4: a single line of input is read between the preview and the deletes
\* or moves: no second line is consumed or required.
C4_SingleRead == linesRead <= 1

C6_OneAttemptPerEntry ==
  /\ LoopsEnded =>
       \A p \in {f.abs : f \in CleanupRecords} \cup {ops[k].path : k \in 1..Len(ops)} :
         Cardinality({k \in 1..Len(ops) : ops[k].path = p})
           = Cardinality({e \in GroupEntries : duplicates[e[1]].cleanup[e[2]].abs = p})
  /\ \A k \in Succeeded : ops[k].path \notin DOMAIN files

C6_Witness ==
  /\ LoopsEnded
  /\ \E k, l \in 1..Len(ops) : k < l /\ ops[k].err = "EPERM" /\ ops[l].err = ""

\* C7: processDuplicates returns an error exactly when some delete or move
\* failed; the error carries the number of failures, each failure has its
\* message, and the success message appears only without failures.
C7_ErrorIffFailure ==
  /\ \A p \in {ops[k].path : k \in 1..Len(ops)} :
       Cardinality({k \in 1..Len(out) : out[k][1] = "Failed to process" /\ out[k][2] = p})
         = Cardinality({k \in FailedOps : ops[k].path = p})
  /\ (\E k \in 1..Len(out) : out[k][1] = "Successfully processed") => FailedOps = {}
  /\ (LoopsEnded /\ pc # "process") =>
       /\ FailedOps # {} <=> ret.err # <<>>
       /\ FailedOps # {} => ret = [returned |-> TRUE, err |-> <<Cardinality(FailedOps), "operations failed">>]
       /\ FailedOps = {} => \E k \in 1..Len(out) : out[k][1] = "Successfully processed"

C7_Witness ==
  pc = "done" /\ Cardinality(FailedOps) = 1 /\ Succeeded # {} /\ ret.err # <<>>

\* The directories of the cleanup trees.
CleanupDirs(D) == {d \in D : \E i \in 1..Len(cleanup) : IsPrefix(cleanup[i], d)}
BelowRoot(D) == {d \in D : \E i \in 1..Len(cleanup) : IsPrefix(cleanup[i], d) /\ d # cleanup[i]}
HeldFiles(F, d) == {p \in DOMAIN F : IsPrefix(d, p)}

\* C8: after a confirmed delete run with pruning enabled, every directory of
\* a cleanup tree whose files were all deleted is gone.
C8_EmptiedDirsRemoved ==
  (pc = "done" /\ Confirmed /\ moveTo = NoMove /\ ~keepEmptyDirs) =>
     \A d \in BelowRoot(dirs0) :
       (HeldFiles(files0, d) # {} /\ HeldFiles(files, d) = {}) => d \notin dirs

\* The pruning itself, seen in the runs in which no delete failed.
EmptiedDirsRemovedWithoutFailure ==
  (pc = "done" /\ Confirmed /\ moveTo = NoMove /\ ~keepEmptyDirs /\ FailedOps = {}) =>
     \A d \in BelowRoot(dirs0) :
       (HeldFiles(files0, d) # {} /\ HeldFiles(files, d) = {}) => d \notin dirs

\* C9: with --keep-empty-dirs no directory is removed.
C9_KeepEmptyDirs == keepEmptyDirs => dirs = dirs0

C9_Witness ==
  /\ pc = "done" /\ keepEmptyDirs /\ Succeeded # {}
  /\ \E d \in CleanupDirs(dirs) : HeldFiles(files0, d) # {} /\ ReadDir(files, dirs, d) = {}

\* C10: a cleanup record is in a group exactly when some reference record is
\* equivalent to it under the mode; every group member is equivalent to its
\* group's reference.
C10_GroupedIffSameKey ==
  pc # "start" =>
    /\ \A c \in CleanupRecords :
         (\E e \in GroupEntries : duplicates[e[1]].cleanup[e[2]] = c)
           <=> (\E r \in referenceFiles : SameKey(r, c))
    /\ \A e \in GroupEntries :
         /\ duplicates[e[1]].reference \in referenceFiles
         /\ duplicates[e[1]].cleanup[e[2]] \in CleanupRecords
         /\ SameKey(duplicates[e[1]].reference, duplicates[e[1]].cleanup[e[2]])
    /\ (mode = "hash" /\ \A f \in referenceFiles \cup CleanupRecords : f.hash # NoHash) =>
         \A c \in CleanupRecords :
           (\E e \in GroupEntries : duplicates[e[1]].cleanup[e[2]] = c)
             <=> (\E r \in referenceFiles : files0[r.abs] = files0[c.abs])

C10_Witness ==
  /\ pc # "start" /\ mode = "hash" /\ reference = RefDir
  /\ \E e \in GroupEntries :
       /\ Base(duplicates[e[1]].cleanup[e[2]].abs) # Base(duplicates[e[1]].reference.abs)
       /\ duplicates[e[1]].cleanup[e[2]].rel # duplicates[e[1]].reference.rel
  /\ \E c \in CleanupRecords : \A e \in GroupEntries : duplicates[e[1]].cleanup[e[2]] # c

\* The number of slots of allCleanupFiles that hold the record c (a root
\* given twice yields its records twice).
TimesScanned(c) == Cardinality({i \in 1..Len(allCleanupFiles) : c \in allCleanupFiles[i]})
\* The entries of the i-th group that are the record c.
TimesInGroup(i, c) ==
  Cardinality({j \in 1..Len(duplicates[i].cleanup) : duplicates[i].cleanup[j] = c})

\* C11: every cleanup record that shares its key with a reference record is
\* an entry of the one group of that key, once per time it was scanned, so
\* the entries of all groups are as many as the matching cleanup records;
\* no two groups have the same key.
C11_TiesAccumulated ==
  pc # "start" =>
    /\ \A i, j \in 1..Len(duplicates) :
         i # j => MatchKey(duplicates[i].reference, mode) # MatchKey(duplicates[j].reference, mode)
    /\ \A c \in CleanupRecords :
         (\E r \in referenceFiles : SameKey(r, c)) =>
           \E i \in 1..Len(duplicates) :
             /\ MatchKey(duplicates[i].reference, mode) = MatchKey(c, mode)
             /\ TimesInGroup(i, c) = TimesScanned(c)
             /\ \A j \in 1..Len(duplicates) : j # i => TimesInGroup(j, c) = 0
    /\ \A i \in 1..Len(duplicates) :
         Len(duplicates[i].cleanup)
           = Cardinality({<<k, c>> \in (1..Len(allCleanupFiles)) \X CleanupRecords :
                            /\ c \in allCleanupFiles[k]
                            /\ MatchKey(c, mode) = MatchKey(duplicates[i].reference, mode)})

C11_Witness ==
  /\ pc # "start" /\ Len(duplicates) >= 2
  /\ \E i \in 1..Len(duplicates) :
       \E j, k \in 1..Len(duplicates[i].cleanup) :
         /\ duplicates[i].cleanup[j].abs # duplicates[i].cleanup[k].abs
         /\ MatchKey(duplicates[i].cleanup[j], mode) = MatchKey(duplicates[i].cleanup[k], mode)

\* C12: the groups are in ascending order of their reference's absolute
\* path, and the cleanup entries of every group are in ascending order of
\* absolute path.
C12_ResultSorted ==
  /\ \A i, j \in 1..Len(duplicates) :
       i < j => ~PathLess(duplicates[j].reference.abs, duplicates[i].reference.abs)
  /\ \A i \in 1..Len(duplicates) :
       \A j, k \in 1..Len(duplicates[i].cleanup) :
         j < k => ~PathLess(duplicates[i].cleanup[k].abs, duplicates[i].cleanup[j].abs)

C12_Witness ==
  /\ Len(duplicates) >= 2
  /\ PathLess(duplicates[1].reference.abs, duplicates[2].reference.abs)
  /\ \E i \in 1..Len(duplicates) :
       \E j, k \in 1..Len(duplicates[i].cleanup) :
         j < k /\ PathLess(duplicates[i].cleanup[j].abs, duplicates[i].cleanup[k].abs)
  /\ \E i \in 1..Len(duplicates) :
       \E j, k \in 1..Len(duplicates[i].cleanup) :
         j < k /\ duplicates[i].cleanup[j].abs = duplicates[i].cleanup[k].abs

\* The records of cleanup files and of reference files whose hashing failed.
Unhashed(S) == {f \in S : f.hash = NoHash}

\* C13: in the modes that hash, a cleanup record whose hashing failed is an
\* entry of no group, a reference record whose hashing failed is the
\* reference of no group, every record of a group carries the digest of its
\* file, and no delete or move is attempted on a file whose cleanup records
\* all failed to hash.
C13_UnhashedNeverDuplicate ==
  (pc # "start" /\ mode # "path+name") =>
    /\ \A e \in GroupEntries :
         /\ duplicates[e[1]].cleanup[e[2]] \notin Unhashed(CleanupRecords)
         /\ duplicates[e[1]].reference \notin Unhashed(referenceFiles)
         /\ duplicates[e[1]].cleanup[e[2]].hash = computeHash(files0, duplicates[e[1]].cleanup[e[2]].abs)
         /\ duplicates[e[1]].reference.hash = computeHash(files0, duplicates[e[1]].reference.abs)
    /\ \A k \in 1..Len(ops) :
         \E c \in CleanupRecords \ Unhashed(CleanupRecords) : c.abs = ops[k].path
    /\ \A f \in Unhashed(CleanupRecords) \cup Unhashed(referenceFiles) :
         (\A c \in CleanupRecords : c.abs = f.abs => c \in Unhashed(CleanupRecords))
           => f.abs \in DOMAIN files /\ files[f.abs] = files0[f.abs]

\* A finished run that deleted or moved a file and left alone a cleanup file
\* that has the content of a reference file but could not be hashed.
C13_Witness ==
  /\ pc = "done" /\ mode # "path+name" /\ Succeeded # {}
  /\ \E c \in Unhashed(CleanupRecords) :
       /\ c.abs \in DOMAIN files
       /\ \E r \in referenceFiles : r.abs # c.abs /\ files0[r.abs] = files0[c.abs] /\ r.hash # NoHash

\* The results a second run with the same flags can compute on the present
\* filesystem: its scans, its hashing (the files that could not be read are
\* those of the first run) and its findDuplicates, lines 381-401.
SecondRunDuplicates ==
  LET unreadable == IF mode = "path+name" THEN {}
                    ELSE {f.abs : f \in Unhashed(referenceFiles \cup CleanupRecords)}
      refs == HashIfNeeded(files, mode, scanTree(files, dirs, reference), unreadable)
      perRoot == [i \in 1..Len(cleanup) |->
                    HashIfNeeded(files, mode, scanTree(files, dirs, cleanup[i]), unreadable)]
  IN UNION {findDuplicates(refOrder, AppendAll(perRoot), mode) : refOrder \in Interleavings(refs)}

FirstRunWasHashDelete == pc = "done" /\ Confirmed /\ mode = "hash" /\ moveTo = NoMove

NumTwinContents == 3  \* distinct byte streams a file of the compared trees may hold

DriveA == <<"a">>
DriveB == <<"b">>
TwinCandidateFiles == {<<"a", "x">>, <<"a", "d", "y">>, <<"b", "x">>, <<"b", "d", "y">>}
TwinFilesystems == UNION {[S -> 1..NumTwinContents] : S \in SUBSET TwinCandidateFiles}
TwinDirsOf(F) == {DriveA, DriveB} \cup UNION {Ancestors(p) : p \in DOMAIN F}

ReportModes == {"all", "missing_a", "missing_b"}
\* The values the user may give to --mode, -a and -b.
ReportModeValues == ReportModes \cup {"both"}
DriveAValues == {DriveA, EmptyPath}
DriveBValues == {DriveB, EmptyPath}
HashModes == {"", "off", "smart", "strict", "bogus"}

\* getFilesConcurrent(base): the FileMap, relative path |-> size.
getFilesConcurrent(F, D, base) ==
  [rel \in {Rel(base, p) : p \in Reached(F, D, base)} |-> SizeOf(F[base \o rel])]

\* scanBySize(base): size |-> the relative paths of that size (the order of
\* a slice is that of the goroutines' appends; only membership is read).
scanBySize(F, D, base) ==
  LET fm == getFilesConcurrent(F, D, base)
  IN [sz \in {fm[p] : p \in DOMAIN fm} |-> {p \in DOMAIN fm : fm[p] = sz}]

\* A digest that depends on where the file is, not only on its bytes.
hashFilePathSalted(F, path) == Sha256(F[path]) + 10 * Len(path)

\* hashFile(path): the hex SHA-256 digest of the file's bytes.
hashFile(F, path) == Sha256(F[path])

\* hashFiles(base, paths): relative path |-> digest, for the paths whose
\* hashFile call returned no error.
twincheckHashFiles(F, U, base, paths) ==
  [rel \in {q \in paths : (base \o q) \notin U} |-> hashFile(F, base \o rel)]

\* buildSizeMap(fm): size |-> the paths of that size.
buildSizeMap(fm) == [sz \in {fm[p] : p \in DOMAIN fm} |-> {p \in DOMAIN fm : fm[p] = sz}]

Values(f) == {f[k] : k \in DOMAIN f}
AbsIn(base, paths) == {base \o q : q \in paths}

\* sort.Strings over the paths collected in S.
RECURSIVE sortStrings(_)
sortStrings(S) ==
  IF S = {} THEN <<>>
  ELSE LET least == CHOOSE p \in S : \A q \in S : ~PathLess(q, p)
       IN <<least>> \o sortStrings(S \ {least})

FileLines(list) == [k \in 1..Len(list) |-> <<"file", list[k]>>]
Section(title, list) == <<<<title, Len(list)>>>> \o FileLines(list)
SectionIfAny(title, list) == IF Len(list) > 0 THEN Section(title, list) ELSE <<>>

\* compareDrives of the earlier twincheck (path and size), lines 66-85: the
\* sorted paths present in both FileMaps with differing sizes.
diffSize(filesA, filesB) ==
  sortStrings({p \in DOMAIN filesA \cap DOMAIN filesB : filesA[p] # filesB[p]})

\* compareOff, lines 145-157: the two sorted lists.
compareOff(filesA, filesB) ==
  [ran |-> TRUE,
   onlyA |-> sortStrings({p \in DOMAIN filesA : p \notin DOMAIN filesB}),
   onlyB |-> sortStrings({p \in DOMAIN filesB : p \notin DOMAIN filesA}),
   hashed |-> {}]

\* The report switch with the lists of missing_a and missing_b exchanged.
compareOffLinesSwapped(rm, onlyA, onlyB) ==
  CASE rm = "missing_a" -> Section("Files missing in Tree A", onlyA)
    [] rm = "missing_b" -> Section("Files missing in Tree B", onlyB)
    [] rm = "all" -> SectionIfAny("Only in Tree A", onlyA) \o SectionIfAny("Only in Tree B", onlyB)
    [] OTHER -> <<>>

\* compareOff, lines 159-183: what it prints.
compareOffLines(rm, onlyA, onlyB) ==
  CASE rm = "missing_a" -> Section("Files missing in Tree A", onlyB)
    [] rm = "missing_b" -> Section("Files missing in Tree B", onlyA)
    [] rm = "all" -> SectionIfAny("Only in Tree A", onlyA) \o SectionIfAny("Only in Tree B", onlyB)
    [] OTHER -> <<>>

\* compareSmart without its digest comparison: a file of A is cleared as soon
\* as B holds a readable file of the same size.
smartMissingInBSizeOnly(F, U, dA, dB, filesA, filesB) ==
  LET missingInB == {p \in DOMAIN filesA : p \notin DOMAIN filesB}
      sizeMapB == buildSizeMap(filesB)
      toHashA == {p \in missingInB : filesA[p] \in DOMAIN sizeMapB}
      toHashB == UNION {sizeMapB[filesA[p]] : p \in toHashA}
      hashesA == twincheckHashFiles(F, U, dA, toHashA)
  IN [truly |-> (missingInB \ toHashA) \cup {p \in toHashA : p \notin DOMAIN hashesA},
      hashed |-> IF toHashA # {} THEN AbsIn(dA, toHashA) \cup AbsIn(dB, toHashB) ELSE {}]

\* compareSmart without its size buckets: every file of A missing in B is
\* hashed, against every file of B.
smartMissingInBHashAll(F, U, dA, dB, filesA, filesB) ==
  LET missingInB == {p \in DOMAIN filesA : p \notin DOMAIN filesB}
      hashesA == twincheckHashFiles(F, U, dA, missingInB)
      hashesB == twincheckHashFiles(F, U, dB, DOMAIN filesB)
      hashSetB == Values(hashesB)
  IN [truly |-> {p \in missingInB : p \notin DOMAIN hashesA \/ hashesA[p] \notin hashSetB},
      hashed |-> IF missingInB # {} THEN AbsIn(dA, missingInB) \cup AbsIn(dB, DOMAIN filesB) ELSE {}]

\* compareSmart, lines 213-247 ("Process missingInB"): the files of A that
\* stay missing in B, and the files hashFile was called on.
smartMissingInB(F, U, dA, dB, filesA, filesB) ==
  LET missingInB == {p \in DOMAIN filesA : p \notin DOMAIN filesB}
      sizeMapB == buildSizeMap(filesB)
      toHashA == {p \in missingInB : filesA[p] \in DOMAIN sizeMapB}
      toHashB == UNION {sizeMapB[filesA[p]] : p \in toHashA}
      hashesA == twincheckHashFiles(F, U, dA, toHashA)
      hashesB == twincheckHashFiles(F, U, dB, toHashB)
      hashSetB == Values(hashesB)
  IN [truly |-> (missingInB \ toHashA)
                  \cup {p \in toHashA : p \notin DOMAIN hashesA \/ hashesA[p] \notin hashSetB},
      hashed |-> IF toHashA # {} THEN AbsIn(dA, toHashA) \cup AbsIn(dB, toHashB) ELSE {}]

\* "Process missingInA" without its digest comparison.
smartMissingInASizeOnly(F, U, dA, dB, filesA, filesB) ==
  LET missingInA == {p \in DOMAIN filesB : p \notin DOMAIN filesA}
      sizeMapA == buildSizeMap(filesA)
      toHashB2 == {p \in missingInA : filesB[p] \in DOMAIN sizeMapA}
      toHashA2 == UNION {sizeMapA[filesB[p]] : p \in toHashB2}
      hashesB == twincheckHashFiles(F, U, dB, toHashB2)
  IN [truly |-> (missingInA \ toHashB2) \cup {p \in toHashB2 : p \notin DOMAIN hashesB},
      hashed |-> IF toHashB2 # {} THEN AbsIn(dB, toHashB2) \cup AbsIn(dA, toHashA2) ELSE {}]

\* compareSmart, lines 249-283 ("Process missingInA").
smartMissingInA(F, U, dA, dB, filesA, filesB) ==
  LET missingInA == {p \in DOMAIN filesB : p \notin DOMAIN filesA}
      sizeMapA == buildSizeMap(filesA)
      toHashB2 == {p \in missingInA : filesB[p] \in DOMAIN sizeMapA}
      toHashA2 == UNION {sizeMapA[filesB[p]] : p \in toHashB2}
      hashesB == twincheckHashFiles(F, U, dB, toHashB2)
      hashesA == twincheckHashFiles(F, U, dA, toHashA2)
      hashSetA == Values(hashesA)
  IN [truly |-> (missingInA \ toHashB2)
                  \cup {p \in toHashB2 : p \notin DOMAIN hashesB \/ hashesB[p] \notin hashSetA},
      hashed |-> IF toHashB2 # {} THEN AbsIn(dB, toHashB2) \cup AbsIn(dA, toHashA2) ELSE {}]

\* A fault: the first direction is resolved by content only when the second
\* has something to resolve too.
compareSmartCoupled(F, D, U, dA, dB) ==
  LET filesA == getFilesConcurrent(F, D, dA)
      filesB == getFilesConcurrent(F, D, dB)
      inB == smartMissingInB(F, U, dA, dB, filesA, filesB)
      inA == smartMissingInA(F, U, dA, dB, filesA, filesB)
      coupled == DOMAIN filesB \subseteq DOMAIN filesA
  IN [ran |-> TRUE,
      onlyA |-> sortStrings(IF coupled THEN {p \in DOMAIN filesA : p \notin DOMAIN filesB}
                            ELSE inB.truly),
      onlyB |-> sortStrings(inA.truly),
      hashed |-> inB.hashed \cup inA.hashed]

\* compareSmart, lines 188-286: scans, both directions, the sorted lists.
compareSmart(F, D, U, dA, dB) ==
  LET filesA == getFilesConcurrent(F, D, dA)
      filesB == getFilesConcurrent(F, D, dB)
      inB == smartMissingInB(F, U, dA, dB, filesA, filesB)
      inA == smartMissingInA(F, U, dA, dB, filesA, filesB)
  IN [ran |-> TRUE, onlyA |-> sortStrings(inB.truly), onlyB |-> sortStrings(inA.truly),
      hashed |-> inB.hashed \cup inA.hashed]

\* compareSmart, lines 288-312.
compareSmartLines(rm, trulyMissingInB, trulyMissingInA) ==
  CASE rm = "missing_a" -> Section("Files missing in Tree A", trulyMissingInA)
    [] rm = "missing_b" -> Section("Files missing in Tree B", trulyMissingInB)
    [] rm = "all" -> SectionIfAny("Only in Tree A", trulyMissingInB)
                       \o SectionIfAny("Only in Tree B", trulyMissingInA)
    [] OTHER -> <<>>

PathsOfSize(sizes, sz) == IF sz \in DOMAIN sizes THEN sizes[sz] ELSE {}

\* compareStrict looking only at the paths the other tree lacks.
compareStrictMissingPathsOnly(F, D, U, dA, dB) ==
  LET sizesA == scanBySize(F, D, dA)
      sizesB == scanBySize(F, D, dB)
      pathsA == UNION {sizesA[sz] : sz \in DOMAIN sizesA}
      pathsB == UNION {sizesB[sz] : sz \in DOMAIN sizesB}
      candidateSizes == {sz \in DOMAIN sizesA : PathsOfSize(sizesB, sz) # {}}
      candidatesA == UNION {sizesA[sz] : sz \in DOMAIN sizesA \cap candidateSizes}
      candidatesB == UNION {sizesB[sz] : sz \in DOMAIN sizesB \cap candidateSizes}
      hashesA == twincheckHashFiles(F, U, dA, candidatesA)
      hashesB == twincheckHashFiles(F, U, dB, candidatesB)
      hashSetB == Values(hashesB)
      hashSetA == Values(hashesA)
      onlyA == {q \in pathsA \ pathsB : q \notin DOMAIN hashesA \/ hashesA[q] \notin hashSetB}
      onlyB == {q \in pathsB \ pathsA : q \notin DOMAIN hashesB \/ hashesB[q] \notin hashSetA}
  IN [ran |-> TRUE, onlyA |-> sortStrings(onlyA), onlyB |-> sortStrings(onlyB),
      hashed |-> AbsIn(dA, candidatesA) \cup AbsIn(dB, candidatesB)]

\* compareStrict, lines 319-399.
compareStrict(F, D, U, dA, dB) ==
  LET sizesA == scanBySize(F, D, dA)
      sizesB == scanBySize(F, D, dB)
      candidateSizes == {sz \in DOMAIN sizesA : PathsOfSize(sizesB, sz) # {}}
      candidatesA == UNION {sizesA[sz] : sz \in DOMAIN sizesA \cap candidateSizes}
      candidatesB == UNION {sizesB[sz] : sz \in DOMAIN sizesB \cap candidateSizes}
      hashesA == twincheckHashFiles(F, U, dA, candidatesA)
      hashesB == twincheckHashFiles(F, U, dB, candidatesB)
      hashSetB == Values(hashesB)
      hashSetA == Values(hashesA)
      onlyA == UNION {IF PathsOfSize(sizesB, sz) = {} THEN sizesA[sz]
                      ELSE {q \in sizesA[sz] : q \notin DOMAIN hashesA \/ hashesA[q] \notin hashSetB} :
                        sz \in DOMAIN sizesA}
      onlyB == UNION {IF PathsOfSize(sizesA, sz) = {} THEN sizesB[sz]
                      ELSE {q \in sizesB[sz] : q \notin DOMAIN hashesB \/ hashesB[q] \notin hashSetA} :
                        sz \in DOMAIN sizesB}
  IN [ran |-> TRUE, onlyA |-> sortStrings(onlyA), onlyB |-> sortStrings(onlyB),
      hashed |-> AbsIn(dA, candidatesA) \cup AbsIn(dB, candidatesB)]

\* compareStrict, lines 401-425.
compareStrictLines(rm, onlyA, onlyB) ==
  CASE rm = "missing_a" -> Section("Files missing in Tree A", onlyB)
    [] rm = "missing_b" -> Section("Files missing in Tree B", onlyA)
    [] rm = "all" -> SectionIfAny("Only in Tree A", onlyA) \o SectionIfAny("Only in Tree B", onlyB)
    [] OTHER -> <<>>

\* init, line 545: the value of --hash-mode when the flag is not given.
HashModeDefault == "off"

\* run, line 476: GetString("hash-mode").
GetHashMode(given, value) == IF given THEN value ELSE HashModeDefault

\* run, lines 478-485: the tier that runs.
effectiveMode(useHash, hm) ==
  IF hm # "" THEN hm ELSE IF useHash THEN "smart" ELSE "off"

\* The lines compareSmart, compareStrict and the off branch of run print
\* for their scans.
TwinScanLines(dA, dB, nA, nB) ==
  <<<<"Scanning", dA>>, <<"Found files", nA, dA>>, <<"Scanning", dB>>, <<"Found files", nB, dB>>>>

\* run, lines 503-522: the result of the tier that ran and the lines printed.
TwinCompare(F, D, U, dA, dB, rm, eff) ==
  LET nA == Cardinality(DOMAIN getFilesConcurrent(F, D, dA))
      nB == Cardinality(DOMAIN getFilesConcurrent(F, D, dB))
  IN CASE eff = "off" ->
            LET r == compareOff(getFilesConcurrent(F, D, dA), getFilesConcurrent(F, D, dB))
            IN [result |-> r,
                lines |-> <<<<"Running in 'off' mode: path+size only (no hashing).">>>>
                            \o TwinScanLines(dA, dB, nA, nB)
                            \o compareOffLines(rm, r.onlyA, r.onlyB)]
       [] eff = "smart" ->
            LET r == compareSmart(F, D, U, dA, dB)
            IN [result |-> r,
                lines |-> <<<<"Running in 'smart' mode: hashing only missing-by-path files.">>>>
                            \o TwinScanLines(dA, dB, nA, nB)
                            \o compareSmartLines(rm, r.onlyA, r.onlyB)]
       [] eff = "strict" ->
            LET r == compareStrict(F, D, U, dA, dB)
            IN [result |-> r,
                lines |-> <<<<"Running in 'strict' mode: global content comparison (may be slow).">>>>
                            \o TwinScanLines(dA, dB, nA, nB)
                            \o compareStrictLines(rm, r.onlyA, r.onlyB)]

DupekillIdle ==
  /\ reference = EmptyPath
  /\ cleanup = <<>>
  /\ mode = "hash"
  /\ moveTo = NoMove
  /\ keepEmptyDirs = FALSE
  /\ outPath = NoOutPath
  /\ referenceFiles = {}
  /\ allCleanupFiles = <<>>
  /\ duplicates = <<>>
  /\ linesRead = 0
  /\ response = ""
  /\ next = 1
  /\ failed = 0
  /\ ops = <<>>

\* The two trees exist, some of their files cannot be read, and twincheck
\* has not run yet.
TwinInit ==
  /\ files \in TwinFilesystems
  /\ dirs = TwinDirsOf(files)
  /\ files0 = files
  /\ dirs0 = dirs
  /\ unreadableFiles \in SubsetsUpTo(DOMAIN files, MaxHashFail)
  /\ DupekillIdle
  /\ pc = "twin"
  /\ driveA = EmptyPath
  /\ driveB = EmptyPath
  /\ reportMode = "all"
  /\ useHashFlag = FALSE
  /\ hashMode = "off"
  /\ hashModeGiven = FALSE
  /\ reported = [t \in Tiers |-> NoReport]
  /\ out = <<>>
  /\ ret = Running
  /\ AuxIdle

\* run, lines 470-531: one run of twincheck on the two trees.
TwinRun ==
  /\ pc = "twin"
  /\ \E dA \in DriveAValues, dB \in DriveBValues, rm \in ReportModeValues, useHash \in BOOLEAN,
        given \in BOOLEAN, o \in OutPaths :
     \E hm \in {GetHashMode(given, value) : value \in IF given THEN HashModes ELSE {HashModeDefault}} :
       /\ driveA' = dA
       /\ driveB' = dB
       /\ reportMode' = rm
       /\ useHashFlag' = useHash
       /\ hashMode' = hm
       /\ hashModeGiven' = given
       /\ outPath' = o
       /\ \E eff \in {effectiveMode(useHash, hm)} :
            IF dA = EmptyPath \/ dB = EmptyPath
            THEN /\ ret' = ReturnErr(<<"both -a and -b flags are required">>)
                 /\ out' = <<>>
                 /\ reported' = reported
            ELSE IF CreateFails(o)
            THEN /\ ret' = ReturnErr(<<"open", o>>)
                 /\ out' = <<>>
                 /\ reported' = reported
            ELSE IF eff \notin Tiers
            THEN /\ ret' = ReturnErr(<<"invalid hash-mode", eff>>)
                 /\ out' = <<>>
                 /\ reported' = reported
            ELSE \E c \in {TwinCompare(files, dirs, unreadableFiles, dA, dB, rm, eff)} :
                   /\ reported' = [reported EXCEPT ![eff] = c.result]
                   /\ out' = c.lines \o <<<<"Done (read-only scan complete).">>>>
                   /\ ret' = ReturnNil
  /\ pc' = "twinDone"
  /\ UNCHANGED <<fsVars, files0, dirs0, unreadableFiles>>
  /\ UNCHANGED <<reference, cleanup, mode, moveTo, keepEmptyDirs, referenceFiles, allCleanupFiles,
                 duplicates, linesRead, response, next, failed, ops>>
  /\ UNCHANGED auxVars

TwinNext == TwinRun

TwinSpec == TwinInit /\ [][TwinNext]_vars

\* =================================================================
\* Part 3: the scanners as concurrent programs (scanTree of dupekill,
\* getFilesConcurrent and scanBySize of twincheck): one goroutine per
\* directory.
\* =================================================================
MaxUnlistable == 1  \* directories that cannot be listed during one scan
ScanRoots == {CleanDir, SubDir}
Scanners == {"scanTree", "getFilesConcurrent", "scanBySize"}
\* mu is not held.
Unlocked == EmptyPath

\* A fault: a listing error goes unnoticed and the entries are read anyway.
ReadDirNeverFails(D, U, dir) == FALSE

\* scanDir, lines 51-55: os.ReadDir(current) returns an error.
ReadDirFails(D, U, dir) == dir \notin D \/ dir \in U

\* A goroutine that has been started and has not called os.ReadDir yet.
NewTask == [started |-> FALSE, todo |-> <<>>]

\* A fault: an append that is not serialised loses the slice's earlier
\* element written by another goroutine.
appendFileUnlocked(list, rec) ==
  IF list # <<>> /\ Parent(list[Len(list)].abs) # Parent(rec.abs)
  THEN Append(SubSeq(list, 1, Len(list) - 1), rec)
  ELSE Append(list, rec)

\* scanTree, lines 70-77: files = append(files, &file{...}) under mu.
appendFile(list, rec) == Append(list, rec)

\* getFilesConcurrent, lines 43-45: files[rel] = info.Size() under mu.
setSize(fm, rel, size) == [q \in DOMAIN fm \cup {rel} |-> IF q = rel THEN size ELSE fm[q]]

\* scanBySize, lines 456-458: groups[size] = append(groups[size], rel) under
\* mu.
appendToGroup(g, size, rel) ==
  [sz \in DOMAIN g \cup {size} |->
     IF sz = size THEN (IF size \in DOMAIN g THEN Append(g[size], rel) ELSE <<rel>>) ELSE g[sz]]

\* A fault: the goroutine is counted by itself when it starts, not by its
\* parent before the go statement.
wgAddInChild(n) == n

\* scanDir, lines 59-60: wg.Add(1) before go scanDir(fullPath).
wgAdd(n) == n + 1

\* The (relative path, size) pairs of what the scanner has collected.
ScanRecords ==
  CASE scanner = "scanTree" ->
         {<<scanTreeFiles[k].rel, scanTreeFiles[k].size>> : k \in 1..Len(scanTreeFiles)}
    [] scanner = "scanBySize" ->
         UNION {{<<groups[sz][k], sz>> : k \in 1..Len(groups[sz])} : sz \in DOMAIN groups}
    [] OTHER -> {<<q, fileMap[q]>> : q \in DOMAIN fileMap}

\* A tree exists, some of its directories cannot be listed, and a scanner is
\* called on a root: its first scanDir(root) is about to run.
ScanInit ==
  /\ files \in Filesystems
  /\ \E extra \in OptionalDirs : dirs = DirsOf(files, extra)
  /\ files0 = files
  /\ dirs0 = dirs
  /\ DupekillIdle
  /\ TwinIdle
  /\ pc = "scan"
  /\ out = <<>>
  /\ ret = Running
  /\ unlistable \in SubsetsUpTo({d \in dirs : IsPrefix(CleanDir, d)}, MaxUnlistable)
  /\ scanner \in Scanners
  /\ scanRoot \in ScanRoots
  /\ scanTasks = [d \in {scanRoot} |-> NewTask]
  /\ scanTreeFiles = <<>>
  /\ fileMap = [q \in {} |-> 0]
  /\ groups = [sz \in {} |-> <<>>]
  /\ wg = 1
  /\ mu = Unlocked
  /\ scanRuns = 0
  /\ firstScan = {}
  /\ HashIdle
  /\ JunkIdle
  /\ SweepIdle
  /\ CacheIdle

scanFixed == <<files, dirs, files0, dirs0, reference, cleanup, mode, moveTo, keepEmptyDirs, outPath,
               referenceFiles, allCleanupFiles, duplicates, linesRead, response, next, failed, ops,
               out, twinVars, unlistable, scanner, scanRoot, hashVars, junkVars,
               sweepVars, cacheVars>>

\* scanDir, lines 51-55: the goroutine lists its directory; on an error it
\* returns (its deferred wg.Done runs).
ScanReadDir(dir) ==
  /\ pc = "scan"
  /\ dir \in DOMAIN scanTasks
  /\ ~scanTasks[dir].started
  /\ IF ReadDirFails(dirs, unlistable, dir)
     THEN /\ scanTasks' = Restrict(scanTasks, DOMAIN scanTasks \ {dir})
          /\ wg' = wg - 1
     ELSE /\ scanTasks' = [scanTasks EXCEPT ![dir] =
                             [started |-> TRUE, todo |-> SortByName(ReadDir(files, dirs, dir))]]
          /\ wg' = wg
  /\ UNCHANGED <<scanFixed, pc, ret, scanTreeFiles, fileMap, groups, mu, scanRuns, firstScan>>

\* scanDir, lines 56-60: the next entry is a directory: wg.Add(1) and
\* go scanDir(fullPath).
ScanEntry(dir) ==
  /\ pc = "scan"
  /\ dir \in DOMAIN scanTasks
  /\ scanTasks[dir].started
  /\ scanTasks[dir].todo # <<>>
  /\ LET fullPath == Head(scanTasks[dir].todo)
         rest == [scanTasks EXCEPT ![dir].todo = Tail(@)]
     IN /\ fullPath \in dirs
        /\ scanTasks' = [d \in DOMAIN rest \cup {fullPath} |->
                           IF d = fullPath THEN NewTask ELSE rest[d]]
        /\ wg' = wgAdd(wg)
  /\ UNCHANGED <<scanFixed, pc, ret, scanTreeFiles, fileMap, groups, mu, scanRuns, firstScan>>

\* scanDir, lines 61-70: the next entry is a file: mu.Lock() once mu is free.
ScanLock(dir) ==
  /\ pc = "scan"
  /\ dir \in DOMAIN scanTasks
  /\ scanTasks[dir].started
  /\ scanTasks[dir].todo # <<>>
  /\ Head(scanTasks[dir].todo) \notin dirs
  /\ mu = Unlocked
  /\ mu' = dir
  /\ UNCHANGED <<scanFixed, pc, ret, scanTasks, scanTreeFiles, fileMap, groups, wg, scanRuns, firstScan>>

\* scanDir, lines 71-77: the holder of mu records the file and unlocks.
ScanAppend(dir) ==
  /\ pc = "scan"
  /\ dir \in DOMAIN scanTasks
  /\ mu = dir
  /\ LET fullPath == Head(scanTasks[dir].todo)
     IN /\ scanTasks' = [scanTasks EXCEPT ![dir].todo = Tail(@)]
        /\ scanTreeFiles' = IF scanner = "scanTree"
                            THEN appendFile(scanTreeFiles, FileRec(files, scanRoot, fullPath))
                            ELSE scanTreeFiles
        /\ fileMap' = IF scanner = "getFilesConcurrent"
                      THEN setSize(fileMap, Rel(scanRoot, fullPath), SizeOf(files[fullPath]))
                      ELSE fileMap
        /\ groups' = IF scanner = "scanBySize"
                     THEN appendToGroup(groups, SizeOf(files[fullPath]), Rel(scanRoot, fullPath))
                     ELSE groups
  /\ mu' = Unlocked
  /\ UNCHANGED <<scanFixed, pc, ret, wg, scanRuns, firstScan>>

\* scanDir, line 50 (deferred): the loop is over, wg.Done().
ScanDirDone(dir) ==
  /\ pc = "scan"
  /\ dir \in DOMAIN scanTasks
  /\ scanTasks[dir].started
  /\ scanTasks[dir].todo = <<>>
  /\ scanTasks' = Restrict(scanTasks, DOMAIN scanTasks \ {dir})
  /\ wg' = wg - 1
  /\ UNCHANGED <<scanFixed, pc, ret, scanTreeFiles, fileMap, groups, mu, scanRuns, firstScan>>

\* scanTree, lines 83-85: wg.Wait() returns when the counter is zero, and
\* the scanner returns its collection and a nil error. The caller keeps the
\* pairs of the first scan and scans the same root once more.
ScanReturn ==
  /\ pc = "scan"
  /\ wg = 0
  /\ scanRuns' = scanRuns + 1
  /\ IF scanRuns = 0
     THEN /\ firstScan' = ScanRecords
          /\ scanTasks' = [d \in {scanRoot} |-> NewTask]
          /\ scanTreeFiles' = <<>>
          /\ fileMap' = [q \in {} |-> 0]
          /\ groups' = [sz \in {} |-> <<>>]
          /\ wg' = 1
          /\ mu' = Unlocked
          /\ pc' = "scan"
          /\ ret' = ret
     ELSE /\ pc' = "scanDone"
          /\ ret' = ReturnNil
          /\ UNCHANGED <<firstScan, scanTasks, scanTreeFiles, fileMap, groups, wg, mu>>
  /\ UNCHANGED scanFixed

ScanNext ==
  \/ \E dir \in DOMAIN scanTasks : ScanReadDir(dir)
  \/ \E dir \in DOMAIN scanTasks : ScanEntry(dir)
  \/ \E dir \in DOMAIN scanTasks : ScanLock(dir)
  \/ \E dir \in DOMAIN scanTasks : ScanAppend(dir)
  \/ \E dir \in DOMAIN scanTasks : ScanDirDone(dir)
  \/ ScanReturn

ScanSpec == ScanInit /\ [][ScanNext]_vars

\* =================================================================
\* Part 4: hashFiles as a concurrent program (dupekill, part_001 lines
\* 88-141; twincheck, lines 70-125): a feeder, numWorkers workers, a
\* goroutine that closes results, and the caller collecting results.
\* =================================================================
MaxHashFiles == 3  \* files handed to one hashFiles call
Hashers == {"dupekill", "twincheck"}
\* The cap on the worker pool (numWorkers := 32 in both hashFiles), scaled so
\* that calls with fewer files than the cap, as many, and more are checked.
WorkerCap == 2
numWorkers(n) == IF n < WorkerCap THEN n ELSE WorkerCap

\* The identity a job and its result carry for the k-th requested file: its
\* index in files (dupekill), its path (twincheck).
JobId(h, input, k) == IF h = "dupekill" THEN k ELSE input[k]
PathOfJob(h, input, id) == IF h = "dupekill" THEN input[id] ELSE id

\* A fault: the feeder sends every job twice.
jobsToSendTwice(h, input) ==
  [k \in 1..(2 * Len(input)) |-> JobId(h, input, ((k - 1) % Len(input)) + 1)]

\* The feeder, lines 125-130: one job per requested file, in order.
jobsToSend(h, input) == [k \in 1..Len(input) |-> JobId(h, input, k)]

\* A fault: a file that cannot be read yields the digest of no bytes.
hashResultsZeroOnFailure(F, U, path) == IF path \in U THEN {Sha256(0)} ELSE {computeHash(F, path)}

\* The worker, lines 114-121: the results it sends for one job, none when
\* computeHash returned an error.
hashResults(F, U, path) == IF path \in U THEN {} ELSE {computeHash(F, path)}

\* What the caller holds before any result is collected: the hash fields of
\* the records (dupekill), an empty map (twincheck).
NoHashes(h, input) ==
  IF h = "dupekill" THEN [k \in 1..Len(input) |-> NoHash] ELSE [q \in {} |-> NoHash]

\* Lines 137-139: files[result.index].hash = result.hash (dupekill),
\* hashes[res.path] = res.hash (twincheck).
storeHash(hs, id, digest) == [q \in DOMAIN hs \cup {id} |-> IF q = id THEN digest ELSE hs[q]]

\* Lines 98-102: the capacity of jobs and of results.
chanCap(input) == Len(input)

\* A fault: a worker that met a hash error is never counted as done.
workersDoneUnlessFailed(ws, U) == U = {} /\ \A w \in DOMAIN ws : ws[w].st = "exit"

\* Line 133: wg.Wait() returns when every worker has called wg.Done().
workersDone(ws, U) == \A w \in DOMAIN ws : ws[w].st = "exit"

\* The slices hashFiles may be called with: the first n of these files.
HashFileList == <<<<"c", "x">>, <<"c", "d", "x">>, <<"c", "d", "e", "y">>, <<"r", "x">>>>
HashInputs == {SubSeq(HashFileList, 1, n) : n \in 0..MaxHashFiles}
JobIds(h, input) == {JobId(h, input, k) : k \in 1..Len(input)}
NoneYet(h, input) == [id \in JobIds(h, input) |-> 0]

\* hashFiles has been called on some files, some of which cannot be read;
\* its channels are made and its workers started.
HashInit ==
  /\ hashInput \in HashInputs
  /\ files \in [Range(hashInput) -> Contents]
  /\ dirs = DirsOf(files, {})
  /\ files0 = files
  /\ dirs0 = dirs
  /\ DupekillIdle
  /\ driveA = EmptyPath
  /\ driveB = EmptyPath
  /\ reportMode = "all"
  /\ useHashFlag = FALSE
  /\ hashMode = "off"
  /\ hashModeGiven = FALSE
  /\ reported = [t \in Tiers |-> NoReport]
  /\ ScanIdle
  /\ JunkIdle
  /\ SweepIdle
  /\ CacheIdle
  /\ pc = "hash"
  /\ out = <<>>
  /\ ret = Running
  /\ hasher \in Hashers
  /\ unreadableFiles \in SubsetsUpTo(Range(hashInput), MaxHashFail)
  /\ fed = 0
  /\ jobsChan = <<>>
  /\ jobsClosed = FALSE
  /\ workers = [w \in 1..numWorkers(Len(hashInput)) |-> [st |-> "recv", job |-> 0]]
  /\ resultsChan = <<>>
  /\ resultsClosed = FALSE
  /\ hashes = NoHashes(hasher, hashInput)
  /\ hashWrites = NoneYet(hasher, hashInput)
  /\ taken = NoneYet(hasher, hashInput)

hashFixed == <<files, dirs, files0, dirs0, flagVars, referenceFiles, allCleanupFiles, duplicates,
               linesRead, response, next, failed, ops, out, ret, twinVars, scanVars,
               hasher, hashInput, junkVars, sweepVars, cacheVars>>

\* Lines 93-95: with no file, hashFiles returns at once.
HashNothing ==
  /\ pc = "hash"
  /\ Len(hashInput) = 0
  /\ pc' = "hashDone"
  /\ UNCHANGED <<hashFixed, fed, jobsChan, jobsClosed, workers, resultsChan, resultsClosed, hashes,
                 hashWrites, taken>>

\* The feeder, lines 125-128: jobs <- job{...} (the buffer holds them all).
Feed ==
  /\ pc = "hash"
  /\ Len(hashInput) > 0
  /\ fed < Len(jobsToSend(hasher, hashInput))
  /\ Len(jobsChan) < chanCap(hashInput)
  /\ jobsChan' = Append(jobsChan, jobsToSend(hasher, hashInput)[fed + 1])
  /\ fed' = fed + 1
  /\ UNCHANGED <<hashFixed, pc, jobsClosed, workers, resultsChan, resultsClosed, hashes, hashWrites, taken>>

\* The feeder, line 129: close(jobs).
CloseJobs ==
  /\ pc = "hash"
  /\ Len(hashInput) > 0
  /\ fed = Len(jobsToSend(hasher, hashInput))
  /\ ~jobsClosed
  /\ jobsClosed' = TRUE
  /\ UNCHANGED <<hashFixed, pc, fed, jobsChan, workers, resultsChan, resultsClosed, hashes, hashWrites, taken>>

\* A worker, line 113: for job := range jobs receives the next job.
WorkerReceive(w) ==
  /\ pc = "hash"
  /\ workers[w].st = "recv"
  /\ jobsChan # <<>>
  /\ workers' = [workers EXCEPT ![w] = [st |-> "hash", job |-> Head(jobsChan)]]
  /\ jobsChan' = Tail(jobsChan)
  /\ taken' = [taken EXCEPT ![Head(jobsChan)] = @ + 1]
  /\ UNCHANGED <<hashFixed, pc, fed, jobsClosed, resultsChan, resultsClosed, hashes, hashWrites>>

\* A worker, lines 114-121: computeHash, then the result is sent unless
\* computeHash failed.
WorkerHash(w) ==
  /\ pc = "hash"
  /\ workers[w].st = "hash"
  /\ LET id == workers[w].job
         sent == hashResults(files, unreadableFiles, PathOfJob(hasher, hashInput, id))
     IN /\ sent # {} => Len(resultsChan) < chanCap(hashInput)
        /\ resultsChan' = IF sent = {} THEN resultsChan
                          ELSE Append(resultsChan, [id |-> id, hash |-> CHOOSE d \in sent : TRUE])
  /\ workers' = [workers EXCEPT ![w] = [st |-> "recv", job |-> 0]]
  /\ UNCHANGED <<hashFixed, pc, fed, jobsChan, jobsClosed, resultsClosed, hashes, hashWrites, taken>>

\* A worker, lines 112-113: jobs is closed and drained, the loop ends and the
\* deferred wg.Done() runs.
WorkerExit(w) ==
  /\ pc = "hash"
  /\ workers[w].st = "recv"
  /\ jobsChan = <<>>
  /\ jobsClosed
  /\ workers' = [workers EXCEPT ![w] = [st |-> "exit", job |-> 0]]
  /\ UNCHANGED <<hashFixed, pc, fed, jobsChan, jobsClosed, resultsChan, resultsClosed, hashes, hashWrites, taken>>

\* Lines 132-135: wg.Wait(); close(results).
CloseResults ==
  /\ pc = "hash"
  /\ Len(hashInput) > 0
  /\ workersDone(workers, unreadableFiles)
  /\ ~resultsClosed
  /\ resultsClosed' = TRUE
  /\ UNCHANGED <<hashFixed, pc, fed, jobsChan, jobsClosed, workers, resultsChan, hashes, hashWrites, taken>>

\* The caller, lines 137-139: for result := range results stores one result.
Collect ==
  /\ pc = "hash"
  /\ resultsChan # <<>>
  /\ hashes' = storeHash(hashes, Head(resultsChan).id, Head(resultsChan).hash)
  /\ hashWrites' = [hashWrites EXCEPT ![Head(resultsChan).id] = @ + 1]
  /\ resultsChan' = Tail(resultsChan)
  /\ UNCHANGED <<hashFixed, pc, fed, jobsChan, jobsClosed, workers, resultsClosed, taken>>

\* The caller, line 137: results is closed and drained; hashFiles returns.
HashReturn ==
  /\ pc = "hash"
  /\ resultsChan = <<>>
  /\ resultsClosed
  /\ pc' = "hashDone"
  /\ UNCHANGED <<hashFixed, fed, jobsChan, jobsClosed, workers, resultsChan, resultsClosed, hashes,
                 hashWrites, taken>>

HashNext ==
  \/ HashNothing
  \/ Feed
  \/ CloseJobs
  \/ \E w \in DOMAIN workers : WorkerReceive(w)
  \/ \E w \in DOMAIN workers : WorkerHash(w)
  \/ \E w \in DOMAIN workers : WorkerExit(w)
  \/ CloseResults
  \/ Collect
  \/ HashReturn

HashSpec == HashInit /\ [][HashNext]_vars

\* Each goroutine of hashFiles that can take a step eventually takes one:
\* the feeder, every worker, the goroutine closing results, and the caller.
HashFairness ==
  /\ WF_vars(Feed \/ CloseJobs)
  /\ \A w \in 1..WorkerCap :
       WF_vars(w \in DOMAIN workers /\ (WorkerReceive(w) \/ WorkerHash(w) \/ WorkerExit(w)))
  /\ WF_vars(CloseResults)
  /\ WF_vars(HashNothing \/ Collect \/ HashReturn)

HashLiveSpec == HashSpec /\ HashFairness

\* =================================================================
\* Part 5: the junksweep command (internal/junksweep/junksweep.go).
\* =================================================================
JunkRoot == <<"j">>
\* File names, cut where a delete pattern may begin or end.
NameSegments ==
  [n \in {"x", "t.tmp", "Thumbs.db", "a.bak.txt"} |->
     CASE n = "x" -> <<"x">>
       [] n = "t.tmp" -> <<"t", ".tmp">>
       [] n = "Thumbs.db" -> <<"Thumbs.db">>
       [] n = "a.bak.txt" -> <<"a", ".bak", ".txt">>]
JunkCandidateFiles ==
  {<<"j", "t.tmp">>, <<"j", "x">>, <<"j", "d", "Thumbs.db">>, <<"j", "d", "a.bak.txt">>,
   <<"o", "t.tmp">>}
JunkFilesystems == UNION {[S -> {1}] : S \in SUBSET JunkCandidateFiles}
JunkDirsOf(F) == {JunkRoot, <<"o">>} \cup UNION {Ancestors(p) : p \in DOMAIN F}

deletePatterns == {"~$", ".tmp", ".~lock.", ".bak", "~WRL", "Thumbs.db", ".DS_Store"}

\* matchesDeletePattern(name): strings.Contains(name, pattern) for some
\* pattern.
matchesDeletePattern(name) ==
  \E pattern \in deletePatterns :
     \E k \in 1..Len(NameSegments[name]) : NameSegments[name][k] = pattern

\* scanFilesConcurrent(baseDir): the matching files of every directory the
\* feeder reaches and a worker can list.
scanFilesConcurrent(F, D, baseDir) ==
  {p \in Reached(F, D, baseDir) : matchesDeletePattern(Base(p))}

\* The orders in which the workers may have sent the files of S.
RECURSIVE Orders(_)
Orders(S) ==
  IF S = {} THEN {<<>>}
  ELSE UNION {{<<p>> \o t : t \in Orders(S \ {p})} : p \in S}

\* A fault: anything but "n" confirms.
JunkConfirmedUnlessNo(resp) == resp # "n"

\* run, line 195.
JunkConfirmed(resp) == resp = "y" \/ resp = "yes"

\* A tree with junk and other files exists; junksweep has not run yet.
JunkInit ==
  /\ files \in JunkFilesystems
  /\ dirs = JunkDirsOf(files)
  /\ files0 = files
  /\ dirs0 = dirs
  /\ DupekillIdle
  /\ TwinIdle
  /\ ScanIdle
  /\ HashIdle
  /\ JunkIdle
  /\ SweepIdle
  /\ CacheIdle
  /\ pc = "junk"
  /\ out = <<>>
  /\ ret = Running

junkFixed == <<dirs, files0, dirs0, reference, cleanup, mode, moveTo, keepEmptyDirs,
               referenceFiles, allCleanupFiles, duplicates, next, failed,
               twinVars, scanVars, hashVars, sweepVars, cacheVars>>

\* run, lines 169-191: read the flags, scan, list the files found and
\* prompt; return at once without -dir, without junk files, or when the list
\* cannot be written.
JunkRun ==
  /\ pc = "junk"
  /\ \E d \in {JunkRoot, EmptyPath}, o \in OutPaths :
       /\ junkDir' = d
       /\ outPath' = o
       /\ IF d = EmptyPath
          THEN /\ ret' = ReturnErr(<<"flag -dir is required">>)
               /\ junkFound' = <<>>
               /\ out' = <<>>
               /\ pc' = "junkDone"
          ELSE \E found \in Orders(scanFilesConcurrent(files, dirs, d)) :
                 /\ junkFound' = found
                 /\ IF Len(found) = 0
                    THEN /\ out' = <<<<"Scanning directory", d>>, <<"No temporary or junk files found.">>>>
                         /\ ret' = ReturnNil
                         /\ pc' = "junkDone"
                    ELSE IF CreateFails(o)
                    THEN /\ out' = <<<<"Scanning directory", d>>>>
                         /\ ret' = ReturnErr(<<"open", o>>)
                         /\ pc' = "junkDone"
                    ELSE /\ out' = <<<<"Scanning directory", d>>>> \o FileLines(found)
                                     \o <<<<"Do you want to delete these files? (y/yes): ", Len(found)>>>>
                         /\ ret' = ret
                         /\ pc' = "junkPrompt"
  /\ UNCHANGED <<junkFixed, files, junkQueue, linesRead, response, ops>>

\* run, lines 192-200: read one line; the files found are handed to
\* deleteFilesConcurrent when it is y or yes.
JunkAnswer ==
  /\ pc = "junkPrompt"
  /\ \E line \in Lines \cup {EOF} :
       LET resp == IF line = EOF THEN "" ELSE TrimLower(line)
       IN /\ response' = resp
          /\ linesRead' = linesRead + 1
          /\ IF JunkConfirmed(resp)
             THEN /\ junkQueue' = Range(junkFound)
                  /\ pc' = "junkDelete"
                  /\ UNCHANGED <<out, ret>>
             ELSE /\ out' = Append(out, <<"No files were deleted.">>)
                  /\ ret' = ReturnNil
                  /\ pc' = "junkDone"
                  /\ junkQueue' = junkQueue
  /\ UNCHANGED <<junkFixed, files, junkDir, junkFound, outPath, ops>>

\* deleteFilesConcurrent, lines 143-145: some worker receives a file and
\* calls os.Remove on it; the error is ignored.
JunkRemove ==
  /\ pc = "junkDelete"
  /\ \E f \in junkQueue, err \in {"", "ENOENT", "EPERM"} :
       /\ err = "ENOENT" <=> f \notin DOMAIN files
       /\ err = "EPERM" => EnvFailures(ops) < MaxEnvFail
       /\ ops' = Append(ops, [op |-> "Remove", path |-> f, dest |-> EmptyPath, err |-> err])
       /\ files' = IF err = "" THEN RemoveFile(files, f) ELSE files
       /\ junkQueue' = junkQueue \ {f}
  /\ UNCHANGED <<junkFixed, junkDir, junkFound, outPath, linesRead, response, out, ret, pc>>

\* deleteFilesConcurrent, lines 152-153, and run, lines 197-201.
JunkDeleted ==
  /\ pc = "junkDelete"
  /\ junkQueue = {}
  /\ out' = Append(out, <<"Deletion complete.">>)
  /\ ret' = ReturnNil
  /\ pc' = "junkDone"
  /\ UNCHANGED <<junkFixed, files, junkDir, junkFound, junkQueue, outPath, linesRead, response, ops>>

JunkNext ==
  \/ JunkRun
  \/ JunkAnswer
  \/ JunkRemove
  \/ JunkDeleted

JunkSpec == JunkInit /\ [][JunkNext]_vars

\* =================================================================
\* Properties of twincheck (checked under TwinSpec).
\* =================================================================
TwinDone == pc = "twinDone" /\ ret = ReturnNil
PathsA == {Rel(DriveA, p) : p \in {q \in DOMAIN files : IsPrefix(DriveA, q)}}
PathsB == {Rel(DriveB, p) : p \in {q \in DOMAIN files : IsPrefix(DriveB, q)}}
ContentA(p) == files[DriveA \o p]
ContentB(p) == files[DriveB \o p]
ReadableA(p) == (DriveA \o p) \notin unreadableFiles
ReadableB(p) == (DriveB \o p) \notin unreadableFiles
Listed(p, list) == \E k \in 1..Len(list) : list[k] = p

\* A readable file of B, at any path, with the size and the digest of A's p.
ContentFoundInB(p) ==
  \E q \in PathsB : /\ ReadableB(q)
                     /\ SizeOf(ContentB(q)) = SizeOf(ContentA(p))
                     /\ Sha256(ContentB(q)) = Sha256(ContentA(p))

\* C15: in the smart tier a file of A whose relative path does not exist in
\* B is reported as missing in B if and only if its own hashing failed or no
\* file of B, at any path, has the same size and the same digest; the off
\* tier reports every such file as only in A, whatever B holds elsewhere.
C15_SmartReclassifiesByContent ==
  TwinDone =>
    /\ reported["smart"].ran =>
         \A p \in PathsA \ PathsB :
            Listed(p, reported["smart"].onlyA) <=> (~ReadableA(p) \/ ~ContentFoundInB(p))
    /\ reported["off"].ran =>
         \A p \in PathsA \ PathsB : Listed(p, reported["off"].onlyA)

\* A holds x, B holds the same bytes at d/y only: the smart tier reports
\* nothing as missing in B, where compareOff on the same trees lists x.
C15_Witness ==
  /\ TwinDone
  /\ reported["smart"].ran
  /\ unreadableFiles = {}
  /\ PathsA = {<<"x">>}
  /\ PathsB = {<<"d", "y">>}
  /\ ContentA(<<"x">>) = ContentB(<<"d", "y">>)
  /\ reported["smart"].onlyA = <<>>
  /\ compareOff(getFilesConcurrent(files, dirs, DriveA), getFilesConcurrent(files, dirs, DriveB)).onlyA
       = <<<<"x">>>>

\* The digests hashFiles obtains for the files of each tree that strict hashes:
\* the readable files whose size occurs in both trees.
SizesA == {SizeOf(ContentA(p)) : p \in PathsA}
SizesB == {SizeOf(ContentB(p)) : p \in PathsB}
HashedDigestsA == {Sha256(ContentA(p)) : p \in {q \in PathsA : ReadableA(q) /\ SizeOf(ContentA(q)) \in SizesB}}
HashedDigestsB == {Sha256(ContentB(p)) : p \in {q \in PathsB : ReadableB(q) /\ SizeOf(ContentB(q)) \in SizesA}}

\* C16: in the strict tier a file of one tree is reported as divergent if
\* and only if its hashing failed or its digest is not among the digests of
\* the other tree's hashed files, whatever its path and whether or not the
\* other tree has that path; a file whose size occurs in one tree only is
\* reported.
C16_StrictDivergentByDigest ==
  (TwinDone /\ reported["strict"].ran) =>
    /\ \A p \in PathsA :
         /\ Listed(p, reported["strict"].onlyA)
              <=> (~ReadableA(p) \/ Sha256(ContentA(p)) \notin HashedDigestsB)
         /\ SizeOf(ContentA(p)) \notin SizesB => Listed(p, reported["strict"].onlyA)
    /\ \A p \in PathsB :
         /\ Listed(p, reported["strict"].onlyB)
              <=> (~ReadableB(p) \/ Sha256(ContentB(p)) \notin HashedDigestsA)
         /\ SizeOf(ContentB(p)) \notin SizesA => Listed(p, reported["strict"].onlyB)
    /\ \A k \in 1..Len(reported["strict"].onlyA) : reported["strict"].onlyA[k] \in PathsA
    /\ \A k \in 1..Len(reported["strict"].onlyB) : reported["strict"].onlyB[k] \in PathsB

\* Both trees hold x, with different bytes of one size, and d/y with the same
\* bytes: strict reports x in both directions and d/y in none.
C16_Witness ==
  /\ TwinDone
  /\ reported["strict"].ran
  /\ unreadableFiles = {}
  /\ PathsA = {<<"x">>, <<"d", "y">>}
  /\ PathsB = PathsA
  /\ ContentA(<<"x">>) # ContentB(<<"x">>)
  /\ SizeOf(ContentA(<<"x">>)) = SizeOf(ContentB(<<"x">>))
  /\ ContentA(<<"d", "y">>) = ContentB(<<"d", "y">>)
  /\ reported["strict"].onlyA = <<<<"x">>>>
  /\ reported["strict"].onlyB = <<<<"x">>>>

\* What each hashing tier reports for the trees of the run: the result of the
\* tier that ran, and the other tier applied to the same trees.
SmartResult ==
  IF reported["smart"].ran THEN reported["smart"]
  ELSE compareSmart(files, dirs, unreadableFiles, DriveA, DriveB)
StrictResult ==
  IF reported["strict"].ran THEN reported["strict"]
  ELSE compareStrict(files, dirs, unreadableFiles, DriveA, DriveB)
HashingTierRan == TwinDone /\ (reported["smart"].ran \/ reported["strict"].ran)
\* Sha256 is injective on Contents (no collision); no hashFile call of
\* either tier fails.
NoHashFailure == (SmartResult.hashed \cup StrictResult.hashed) \cap unreadableFiles = {}
SamePathSameContent == \A p \in PathsA \cap PathsB : ContentA(p) = ContentB(p)
RECURSIVE Without(_, _)
Without(list, S) ==
  IF list = <<>> THEN <<>>
  ELSE IF Head(list) \in S THEN Without(Tail(list), S)
       ELSE <<Head(list)>> \o Without(Tail(list), S)

\* C17 as stated: without hash collision and hash failure, smart and strict
\* report the same divergent-in-B list and the same divergent-in-A list.
C17_SmartStrictAgree ==
  (HashingTierRan /\ NoHashFailure) =>
    /\ SmartResult.onlyA = StrictResult.onlyA
    /\ SmartResult.onlyB = StrictResult.onlyB

\* C17 (amended): without hash collision and hash failure, the smart tier
\* reports exactly the paths the strict tier reports that do not exist in the
\* other tree; the two tiers report identical lists when every path that
\* exists in both trees has the same content in both.
C17_SmartStrictAgreeOnMissingPaths ==
  (HashingTierRan /\ NoHashFailure) =>
    /\ SmartResult.onlyA = Without(StrictResult.onlyA, PathsB)
    /\ SmartResult.onlyB = Without(StrictResult.onlyB, PathsA)
    /\ SamePathSameContent =>
         /\ SmartResult.onlyA = StrictResult.onlyA
         /\ SmartResult.onlyB = StrictResult.onlyB

\* x is in both trees with the same bytes, d/y is in B only and A's x has its
\* size but not its bytes: both tiers hash and both report d/y, and only d/y.
C17_Witness ==
  /\ TwinDone
  /\ reported["smart"].ran
  /\ NoHashFailure
  /\ PathsA = {<<"x">>}
  /\ PathsB = {<<"x">>, <<"d", "y">>}
  /\ SamePathSameContent
  /\ reported["smart"].hashed # {}
  /\ reported["smart"].onlyB = <<<<"d", "y">>>>
  /\ StrictResult.onlyB = <<<<"d", "y">>>>
  /\ StrictResult.onlyA = <<>>

\* The Tier 0 size-mismatch set of the trees of the run.
SizeMismatch ==
  diffSize(getFilesConcurrent(files, dirs, DriveA), getFilesConcurrent(files, dirs, DriveB))
StrictDivergent(p) == Listed(p, reported["strict"].onlyA) \/ Listed(p, reported["strict"].onlyB)
\* No two files, of either tree, have equal size and differing content.
EqualSizeEqualContent ==
  \A f, g \in DOMAIN files : SizeOf(files[f]) = SizeOf(files[g]) => files[f] = files[g]
ContentOfAInB(p) == \E q \in PathsB : ContentB(q) = ContentA(p)
ContentOfBInA(p) == \E q \in PathsA : ContentA(q) = ContentB(p)

\* C18 as stated: when no two files of equal size differ in content, every
\* path present in both trees with differing sizes is reported as divergent
\* by the strict tier (for one tree or the other).
C18_SizeMismatchReportedByStrict ==
  (TwinDone /\ reported["strict"].ran /\ EqualSizeEqualContent) =>
    \A k \in 1..Len(SizeMismatch) : StrictDivergent(SizeMismatch[k])

\* C18 (amended): under the same condition, a path present in both trees
\* with differing sizes is reported by the strict tier whenever the content
\* of one of its two files occurs nowhere in the other tree; when both
\* contents occur in the other tree and every file can be hashed, the strict
\* tier does not report the path.
C18_SizeMismatchReportedUnlessFoundElsewhere ==
  (TwinDone /\ reported["strict"].ran /\ EqualSizeEqualContent) =>
    \A k \in 1..Len(SizeMismatch) :
       LET p == SizeMismatch[k]
       IN /\ (~ContentOfAInB(p) \/ ~ContentOfBInA(p)) => StrictDivergent(p)
          /\ (ContentOfAInB(p) /\ ContentOfBInA(p) /\ unreadableFiles = {}) => ~StrictDivergent(p)

\* x has one size in A and another in B and is the only file of each tree:
\* strict reports x for both trees without hashing.
C18_Witness ==
  /\ TwinDone
  /\ reported["strict"].ran
  /\ EqualSizeEqualContent
  /\ unreadableFiles = {}
  /\ PathsA = {<<"x">>}
  /\ PathsB = {<<"x">>}
  /\ SizeMismatch = <<<<"x">>>>
  /\ ~ContentOfAInB(<<"x">>)
  /\ Listed(<<"x">>, reported["strict"].onlyA)
  /\ Listed(<<"x">>, reported["strict"].onlyB)

\* The paths listed in the report, in the order printed, and its headers.
IsFileLine(l) == l[1] = "file"
IsHeaderLine(l) ==
  l[1] \in {"Files missing in Tree A", "Files missing in Tree B", "Only in Tree A", "Only in Tree B"}
ReportedPaths ==
  LET fl == SelectSeq(out, IsFileLine) IN [k \in 1..Len(fl) |-> fl[k][2]]
ReportHeaders == SelectSeq(out, IsHeaderLine)
ElementsOf(list) == {list[k] : k \in 1..Len(list)}
SortedStrictly(list) == \A j, k \in 1..Len(list) : j < k => PathLess(list[j], list[k])
HeaderIfAny(title, list) == IF list = <<>> THEN <<>> ELSE <<<<title, Len(list)>>>>
\* The report of a tier whose result lists are onlyA and onlyB.
ReportFollowsMode(r) ==
  /\ reportMode = "missing_b" =>
       /\ ReportedPaths = r.onlyA
       /\ ReportHeaders = <<<<"Files missing in Tree B", Len(r.onlyA)>>>>
  /\ reportMode = "missing_a" =>
       /\ ReportedPaths = r.onlyB
       /\ ReportHeaders = <<<<"Files missing in Tree A", Len(r.onlyB)>>>>
  /\ reportMode = "all" =>
       /\ ReportedPaths = r.onlyA \o r.onlyB
       /\ ReportHeaders = HeaderIfAny("Only in Tree A", r.onlyA) \o HeaderIfAny("Only in Tree B", r.onlyB)

\* C19: in the off tier onlyA is exactly the paths of A not in B and onlyB
\* the paths of B not in A, each in ascending order without repetition;
\* report mode missing_b lists exactly onlyA, missing_a exactly onlyB and all
\* lists both, and the smart and strict tiers map the report mode to their
\* two result lists in the same way.
C19_OffSetsAndReportModes ==
  TwinDone =>
    /\ reported["off"].ran =>
         /\ ElementsOf(reported["off"].onlyA) = PathsA \ PathsB
         /\ ElementsOf(reported["off"].onlyB) = PathsB \ PathsA
         /\ SortedStrictly(reported["off"].onlyA)
         /\ SortedStrictly(reported["off"].onlyB)
    /\ \A t \in Tiers : reported[t].ran => ReportFollowsMode(reported[t])

\* A holds d/y and x, B holds neither: the off tier run with missing_b
\* prints d/y, then x, under "Files missing in Tree B".
C19_Witness ==
  /\ TwinDone
  /\ reported["off"].ran
  /\ reportMode = "missing_b"
  /\ PathsA = {<<"x">>, <<"d", "y">>}
  /\ PathsB = {}
  /\ reported["off"].onlyA = <<<<"d", "y">>, <<"x">>>>
  /\ ReportedPaths = <<<<"d", "y">>, <<"x">>>>

\* C20: a run in off mode ("path+size only") with report mode all reports
\* every path that exists in both trees with differing sizes as a
\* difference, besides the files only in A and only in B.
C20_OffReportsSizeDifferences ==
  (TwinDone /\ reported["off"].ran /\ reportMode = "all") =>
    /\ \A p \in (PathsA \ PathsB) \cup (PathsB \ PathsA) : Listed(p, ReportedPaths)
    /\ \A k \in 1..Len(SizeMismatch) : Listed(SizeMismatch[k], ReportedPaths)

\* twincheck's run has returned (with or without an error).
TwinReturned == pc = "twinDone"
TwinScanned == (\E k \in 1..Len(out) : out[k][1] = "Scanning") \/ (\E t \in Tiers : reported[t].ran)
TwinSetupInvalid ==
  \/ driveA = EmptyPath
  \/ driveB = EmptyPath
  \/ reportMode \notin ReportModes
  \/ effectiveMode(useHashFlag, hashMode) \notin Tiers
  \/ CreateFails(outPath)

\* C21: a twincheck run given no -a or -b root, an invalid report mode, an
\* invalid hashing tier or an output path that cannot be created returns an
\* error and has scanned no directory.
C21_SetupErrorBeforeScan ==
  (TwinReturned /\ TwinSetupInvalid) => (ret.err # <<>> /\ ~TwinScanned)

\* The part of C21 about dupekill: an invalid mode, an empty cleanup list or
\* an output path that cannot be created makes run return the error with
\* nothing scanned or printed.
DupekillSetupErrorBeforeScan ==
  (pc # "start" /\ (mode \notin Modes \/ cleanup = <<>> \/ CreateFails(outPath))) =>
    /\ pc = "done"
    /\ ret.err # <<>>
    /\ out = <<>>
    /\ referenceFiles = {}
    /\ allCleanupFiles = <<>>

\* =================================================================
\* Properties of the scanners (checked under ScanSpec).
\* =================================================================
ScanReturned == pc = "scanDone"
\* The files the returned collection holds, by absolute path.
ScannedPaths ==
  IF scanner = "scanTree" THEN {scanTreeFiles[k].abs : k \in 1..Len(scanTreeFiles)}
  ELSE {scanRoot \o rec[1] : rec \in ScanRecords}
\* p lies in the subtree of a directory of the scanned tree that cannot be
\* listed.
BelowUnlistable(p) ==
  \E k \in Len(scanRoot)..(Len(p) - 1) : SubSeq(p, 1, k) \in unlistable
FilesBelowRoot == {p \in DOMAIN files : IsPrefix(scanRoot, p)}

\* C22: a scan returns a nil error whether or not directories could be
\* listed, and its result holds exactly the files below the root that are
\* not in the subtree of a directory that cannot be listed.
C22_UnlistableDirSkipped ==
  ScanReturned =>
    /\ ret = ReturnNil
    /\ ScannedPaths = {p \in FilesBelowRoot : ~BelowUnlistable(p)}

\* c/d cannot be listed and holds a file; c/x is in the result, c/d/x is not.
C22_Witness ==
  /\ ScanReturned
  /\ scanRoot = CleanDir
  /\ unlistable = {SubDir}
  /\ <<"c", "d", "x">> \in DOMAIN files
  /\ <<"c", "x">> \in ScannedPaths
  /\ <<"c", "d", "x">> \notin ScannedPaths

\* C23: whatever the interleaving of the scanDir goroutines, the second scan
\* of an unchanged tree returns the (relative path, size) pairs of the first
\* one, namely one pair for each file the scan can reach, and no relative
\* path occurs twice.
C23_ScanIndependentOfInterleaving ==
  ScanReturned =>
    /\ ScanRecords = firstScan
    /\ ScanRecords = {<<Rel(scanRoot, p), SizeOf(files[p])>> : p \in Reached(files, dirs \ unlistable, scanRoot)}
    /\ scanner = "scanTree" =>
         \A j, k \in 1..Len(scanTreeFiles) : scanTreeFiles[j].rel = scanTreeFiles[k].rel => j = k

\* The goroutine of c/d appended its file before the one of c appended c/x,
\* although c was started first.
C23_Witness ==
  /\ ScanReturned
  /\ scanner = "scanTree"
  /\ scanRoot = CleanDir
  /\ Len(scanTreeFiles) = 3
  /\ scanTreeFiles[1].abs = <<"c", "d", "e", "y">>
  /\ scanTreeFiles[3].abs = <<"c", "x">>

\* The accumulator of the scanner under study holds no file twice.
NoRecordTwice ==
  /\ \A j, k \in 1..Len(scanTreeFiles) : scanTreeFiles[j].abs = scanTreeFiles[k].abs => j = k
  /\ \A sz \in DOMAIN groups : \A j, k \in 1..Len(groups[sz]) : groups[sz][j] = groups[sz][k] => j = k
  /\ \A s1, s2 \in DOMAIN groups :
       s1 # s2 => \A j \in 1..Len(groups[s1]), k \in 1..Len(groups[s2]) : groups[s1][j] # groups[s2][k]
\* The counter is zero only when no scanDir goroutine is left; a scan that
\* returned holds every file of every listable directory once.
ScanWaitsAndLosesNothing ==
  /\ (pc = "scan" /\ wg = 0) => DOMAIN scanTasks = {}
  /\ NoRecordTwice
  /\ ScanReturned =>
       /\ DOMAIN scanTasks = {}
       /\ mu = Unlocked
       /\ ScannedPaths = {p \in FilesBelowRoot : ~BelowUnlistable(p)}
\* A step that changes an accumulator during a scan is taken by the
\* goroutine that holds mu.
AppendUnderMutex ==
  (scanRuns' = scanRuns /\ <<scanTreeFiles, fileMap, groups>>' # <<scanTreeFiles, fileMap, groups>>) =>
     /\ mu # Unlocked
     /\ mu \in DOMAIN scanTasks
     /\ mu' = Unlocked

\* C35: under every interleaving, a concurrent scan (scanTree,
\* getFilesConcurrent, scanBySize) returns only when every scanDir goroutine
\* it started has finished: the wait counter is not zero while a discovered
\* directory is unscanned; every write to the shared accumulator is made by
\* the holder of the mutex; and the result holds each file of every listable
\* directory exactly once.
C35_ScanWaitsForAllTasks == [](ScanWaitsAndLosesNothing) /\ [][AppendUnderMutex]_vars

\* scanBySize returned three files of c; the two of one size were appended to
\* one group by two goroutines, the deeper one first.
C35_Witness ==
  /\ ScanReturned
  /\ scanner = "scanBySize"
  /\ scanRoot = CleanDir
  /\ unlistable = {}
  /\ Cardinality(ScannedPaths) = 3
  /\ \E sz \in DOMAIN groups : Len(groups[sz]) >= 2 /\ groups[sz][1] = <<"d", "e", "y">>

\* =================================================================
\* Properties of hashFiles (checked under HashSpec).
\* =================================================================
HashReturned == pc = "hashDone"
\* The digest the caller holds for the k-th requested file, if any.
HasDigest(k) ==
  IF hasher = "dupekill" THEN hashes[k] # NoHash ELSE hashInput[k] \in DOMAIN hashes
DigestOf(k) == IF hasher = "dupekill" THEN hashes[k] ELSE hashes[hashInput[k]]
Requested == 1..Len(hashInput)

\* C24: when hashFiles returns, the caller holds a digest for exactly the
\* requested files that could be read, each the digest of that file's own
\* bytes; a file that could not be read has no digest; every job was received
\* by exactly one worker. While results arrive, in whatever order, every
\* digest already stored is the one of its own file.
C24_DigestsCorrelated ==
  /\ \A k \in Requested : HasDigest(k) =>
       /\ hashInput[k] \notin unreadableFiles
       /\ DigestOf(k) = Sha256(files[hashInput[k]])
  /\ hasher = "twincheck" => DOMAIN hashes \subseteq Range(hashInput)
  /\ HashReturned =>
       \A k \in Requested :
          /\ HasDigest(k) <=> hashInput[k] \notin unreadableFiles
          /\ taken[JobId(hasher, hashInput, k)] = 1

\* The result of the second file has been stored before the result of the
\* first one, whose bytes differ, has arrived.
C24_Witness ==
  /\ pc = "hash"
  /\ Len(hashInput) = 2
  /\ unreadableFiles = {}
  /\ files[hashInput[1]] # files[hashInput[2]]
  /\ HasDigest(2)
  /\ ~HasDigest(1)
  /\ workers[1].st = "hash"

\* C25: in dupekill's hashFiles the hash field of a record changes only in a
\* step of the calling goroutine that takes one result from results, that
\* step writes one field, and no field is written a second time; after
\* hashFiles has returned (when findDuplicates reads the fields) nothing
\* writes them.
C25_HashWrittenOnceByCaller ==
  [][hasher = "dupekill" =>
       /\ \A id \in DOMAIN hashWrites' : hashWrites'[id] <= 1
       /\ hashes' # hashes =>
            /\ pc = "hash"
            /\ resultsChan # <<>>
            /\ resultsChan' = Tail(resultsChan)
            /\ workers' = workers
            /\ \A k \in Requested : hashes'[k] # hashes[k] =>
                 /\ k = Head(resultsChan).id
                 /\ hashes[k] = NoHash]_vars

\* Both records of a two-file call have been written, once each.
C25_Witness ==
  /\ HashReturned
  /\ hasher = "dupekill"
  /\ Len(hashInput) = 2
  /\ hashWrites[1] = 1
  /\ hashWrites[2] = 1
  /\ hashes[1] # NoHash
  /\ hashes[2] # NoHash

\* =================================================================
\* Properties of junksweep (checked under JunkSpec).
\* =================================================================
JunkRemovals == {ops[i].path : i \in 1..Len(ops)}
JunkListed == {p \in JunkCandidateFiles : \E i \in 1..Len(out) : out[i] = <<"file", p>>}

\* C26: junksweep calls os.Remove, and so a file disappears, only after the
\* prompt was answered with y or yes, and only for files of the scan result
\* that was listed; after any other answer, an empty line or EOF, the
\* filesystem is as it was and nothing was removed.
C26_DeleteOnlyAfterYes ==
  /\ (ops # <<>> \/ files # files0) =>
       /\ linesRead = 1
       /\ response \in {"y", "yes"}
       /\ junkDir # EmptyPath
  /\ \A p \in JunkRemovals :
       /\ p \in Range(junkFound)
       /\ p \in JunkListed
       /\ p \in scanFilesConcurrent(files0, dirs0, junkDir)
  /\ \A p \in DOMAIN files0 \ DOMAIN files : p \in JunkRemovals
  /\ DOMAIN files \subseteq DOMAIN files0
  /\ (pc = "junkDone" /\ response \notin {"y", "yes"}) => (files = files0 /\ ops = <<>>)

\* The user answered yes: the junk file of the swept directory is gone, its
\* other file and the junk file outside the directory are still there.
C26_Witness ==
  /\ pc = "junkDone"
  /\ response = "yes"
  /\ <<"j", "t.tmp">> \in DOMAIN files0 \ DOMAIN files
  /\ <<"j", "x">> \in DOMAIN files
  /\ <<"o", "t.tmp">> \in DOMAIN files

\* =================================================================
\* The hashing tier of twincheck (checked under TwinSpec).
\* =================================================================
\* The tier the command line selects.
SelectedTier ==
  IF hashModeGiven THEN hashMode ELSE IF useHashFlag THEN "smart" ELSE "off"

\* C27: when twincheck compares the trees, the tier that runs is the one the
\* command line selects: smart for --hash without --hash-mode, the value of
\* an explicit --hash-mode, off with neither flag.
C27_SelectedTierRuns ==
  (TwinDone /\ ret = ReturnNil /\ SelectedTier \in Tiers) =>
     \A t \in Tiers : (reported[t] # NoReport) <=> (t = SelectedTier)

\* =================================================================
\* The empty-directory cleanup of dupekill (checked under Spec).
\* =================================================================
CleanupRoots == {cleanup[i] : i \in 1..Len(cleanup)}

\* C28: the empty-directory cleanup never removes a cleanup root itself,
\* empty or emptied; every directory it removes lies strictly below a
\* cleanup root.
C28_CleanupRootKept ==
  /\ \A root \in CleanupRoots : root \in dirs0 => root \in dirs
  /\ \A d \in dirs0 \ dirs : \E root \in CleanupRoots : IsPrefix(root, d) /\ d # root

DirsRemoved == dirs0 \ dirs
\* The files that this run deleted or moved away.
FilesTaken == DOMAIN files0 \ DOMAIN files

\* C29 as stated: every directory the cleanup removed held, in its subtree,
\* a file that this run deleted or moved; a directory that was empty before
\* the run is not removed.
C29_OnlyEmptiedDirsRemoved ==
  \A d \in DirsRemoved : \E p \in FilesTaken : IsPrefix(d, p)

\* C29, amended: every directory the cleanup removed is a directory of a
\* cleanup tree that holds no file, in itself or below, when the walk runs,
\* whether this run emptied it or it was empty before.
C29_OnlyFilelessDirsRemoved ==
  \A d \in DirsRemoved : d \in CleanupDirs(dirs0) /\ HeldFiles(files, d) = {}

\* A run that deleted a file and removed a directory that held no file
\* before the run, while a directory that still holds a file stays.
C29_Witness ==
  /\ pc = "done"
  /\ FilesTaken # {}
  /\ \E d \in DirsRemoved : HeldFiles(files0, d) = {}
  /\ \E d \in CleanupDirs(dirs) : HeldFiles(files, d) # {}

\* =================================================================
\* The DuplicateSet and the order of the scan (checked under Spec).
\* =================================================================
\* C30: the DuplicateSet that run computed is the one findDuplicates
\* computes from every order in which the scan goroutines can have appended
\* the reference records: the groups, each group's reference and its cleanup
\* entries do not depend on the interleaving.
C30_DuplicatesIndependentOfScanOrder ==
  pc # "start" =>
    \A refOrder \in Interleavings(referenceFiles) :
      duplicates \in findDuplicates(refOrder, AppendAll(allCleanupFiles), mode)

\* =================================================================
\* Moves into the destination directory (checked under Spec).
\* =================================================================
MovedOps == {k \in Succeeded : ops[k].op = "Rename"}

\* C31: after a confirmed move run that reports no failure, every moved file
\* is in the destination directory as its own file: no two moves had the
\* same destination, and no destination held a file before the run.
C31_MovedFilesKept ==
  (pc = "done" /\ Confirmed /\ moveTo # NoMove /\ FailedOps = {} /\ ret = ReturnNil) =>
     /\ \A k \in MovedOps : ops[k].dest \in DOMAIN files /\ ops[k].dest \notin DOMAIN files0
     /\ \A j, k \in MovedOps : j # k => ops[j].dest # ops[k].dest
     /\ Cardinality(DOMAIN files) = Cardinality(DOMAIN files0)

\* =================================================================
\* Identity of the cleanup entries (checked under Spec).
\* =================================================================
\* C32: across all groups of a run no absolute path occurs twice among the
\* cleanup entries, and no path is the subject of two delete or move calls.
C32_CleanupPathsDistinct ==
  /\ \A i, j \in 1..Len(Entries(duplicates)) :
       i # j => Entries(duplicates)[i].abs # Entries(duplicates)[j].abs
  /\ \A j, k \in 1..Len(ops) : j # k => ops[j].path # ops[k].path

\* =================================================================
\* What the hashing tiers read (checked under TwinSpec).
\* =================================================================
HashingTiers == {"smart", "strict"}
HashedA(t) == {p \in PathsA : DriveA \o p \in reported[t].hashed}
HashedB(t) == {p \in PathsB : DriveB \o p \in reported[t].hashed}
LoneSizeA == {p \in PathsA : SizeOf(ContentA(p)) \notin SizesB}
LoneSizeB == {p \in PathsB : SizeOf(ContentB(p)) \notin SizesA}
HashedOnlyWithSizeCounterpart(t) ==
  /\ HashedA(t) \cap LoneSizeA = {}
  /\ HashedB(t) \cap LoneSizeB = {}
  /\ reported[t].hashed \subseteq AbsIn(DriveA, PathsA) \cup AbsIn(DriveB, PathsB)
  /\ (t = "smart" /\ PathsA = PathsB) => reported[t].hashed = {}

\* C33 as stated: in the smart and strict tiers only files whose size occurs
\* in the other tree are hashed, every file whose size does not occur there
\* is reported as divergent, and smart hashes nothing when no path is
\* missing.
C33_LoneSizeDivergentUnread ==
  \A t \in HashingTiers :
    (TwinDone /\ reported[t].ran) =>
      /\ HashedOnlyWithSizeCounterpart(t)
      /\ \A p \in LoneSizeA : Listed(p, reported[t].onlyA)
      /\ \A p \in LoneSizeB : Listed(p, reported[t].onlyB)

\* C33, amended: only files whose size occurs in the other tree are hashed
\* and smart hashes nothing when no path is missing; a file whose size does
\* not occur in the other tree is reported as divergent by strict, and by
\* smart when its path is missing from the other tree.
C33_LoneSizeUnreadDivergentIfConsidered ==
  \A t \in HashingTiers :
    (TwinDone /\ reported[t].ran) =>
      /\ HashedOnlyWithSizeCounterpart(t)
      /\ \A p \in LoneSizeA : (t = "strict" \/ p \notin PathsB) => Listed(p, reported[t].onlyA)
      /\ \A p \in LoneSizeB : (t = "strict" \/ p \notin PathsA) => Listed(p, reported[t].onlyB)

\* Smart ran on trees where A's x is missing in B and B has a file of its
\* size, and A's d/y has a size that B lacks: x and that file of B were
\* hashed, d/y was not.
C33_Witness ==
  /\ TwinDone
  /\ reported["smart"].ran
  /\ PathsA = {<<"x">>, <<"d", "y">>}
  /\ PathsB = {<<"d", "y">>}
  /\ SizeOf(ContentA(<<"x">>)) = SizeOf(ContentB(<<"d", "y">>))
  /\ SizeOf(ContentA(<<"d", "y">>)) # SizeOf(ContentB(<<"d", "y">>))
  /\ HashedA("smart") = {<<"x">>}
  /\ HashedB("smart") = {<<"d", "y">>}

\* =================================================================
\* Symmetry of the smart tier (checked under TwinSpec).
\* =================================================================
\* The filesystems that differ from the run's only in that A also holds
\* files at paths that the run's A lacks and B has.
FewerMissingInA ==
  {files @@ extra :
     extra \in UNION {[S -> 1..NumTwinContents] : S \in SUBSET AbsIn(DriveA, PathsB \ PathsA)}}
\* Likewise for B.
FewerMissingInB ==
  {files @@ extra :
     extra \in UNION {[S -> 1..NumTwinContents] : S \in SUBSET AbsIn(DriveB, PathsA \ PathsB)}}

\* C34: the smart tier run with the roots exchanged reports the same two
\* lists with their roles exchanged; and the list of files missing in B is
\* the same when fewer files are missing in A (A holding more of B's paths),
\* and conversely.
C34_SmartSymmetricIndependent ==
  (TwinDone /\ reported["smart"].ran) =>
    /\ LET swapped == compareSmart(files, dirs, unreadableFiles, DriveB, DriveA)
       IN /\ swapped.onlyA = reported["smart"].onlyB
          /\ swapped.onlyB = reported["smart"].onlyA
    /\ \A G \in FewerMissingInA :
         compareSmart(G, TwinDirsOf(G), unreadableFiles, DriveA, DriveB).onlyA
           = reported["smart"].onlyA
    /\ \A G \in FewerMissingInB :
         compareSmart(G, TwinDirsOf(G), unreadableFiles, DriveA, DriveB).onlyB
           = reported["smart"].onlyB

\* A holds x only, B holds d/y only, with different bytes of one size: each
\* is reported missing in the other tree, in the run and in the run with the
\* roots exchanged, and x stays reported when A is given d/y too.
C34_Witness ==
  /\ TwinDone
  /\ reported["smart"].ran
  /\ unreadableFiles = {}
  /\ PathsA = {<<"x">>}
  /\ PathsB = {<<"d", "y">>}
  /\ ContentA(<<"x">>) # ContentB(<<"d", "y">>)
  /\ SizeOf(ContentA(<<"x">>)) = SizeOf(ContentB(<<"d", "y">>))
  /\ reported["smart"].onlyA = <<<<"x">>>>
  /\ reported["smart"].onlyB = <<<<"d", "y">>>>
  /\ Cardinality(FewerMissingInA) > 1

\* =================================================================
\* Termination of hashFiles (checked under HashLiveSpec).
\* =================================================================
\* hashFiles has returned with nothing left behind: both channels closed and
\* empty, every worker out of its loop.
HashFinishedCleanly ==
  /\ HashReturned
  /\ Len(hashInput) > 0 =>
       /\ jobsClosed /\ jobsChan = <<>>
       /\ resultsClosed /\ resultsChan = <<>>
       /\ fed = Len(hashInput)
       /\ \A w \in DOMAIN workers : workers[w].st = "exit"

\* C36: every call of hashFiles (either implementation), on fewer files than
\* the worker cap, as many or more, and whichever files cannot be hashed,
\* returns: the feeder sends and closes, every worker leaves its loop,
\* results is closed after that (and only once: it is never reopened), and
\* the caller's collecting loop ends.
C36_HashFilesTerminates ==
  /\ <>[]HashFinishedCleanly
  /\ [][(resultsClosed' /\ ~resultsClosed) => \A w \in DOMAIN workers : workers[w].st = "exit"]_vars
  /\ [][resultsClosed => resultsClosed']_vars

\* A call on three files, more than the two workers of the pool, one of them
\* unreadable, has returned.
C36_Witness ==
  /\ HashFinishedCleanly
  /\ Len(hashInput) = 3
  /\ Cardinality(DOMAIN workers) = 2
  /\ Cardinality(unreadableFiles) = 1
  /\ Cardinality({id \in DOMAIN hashWrites : hashWrites[id] = 1}) = 2

\* =================================================================
\* Part 6: scanFilesConcurrent of junksweep as a concurrent program: one
\* feeder, the workers, the closer of fileCh and the collecting caller.
\* =================================================================
DirChCap == 1        \* capacity of dirCh (100 in the code)
FileChCap == 1       \* capacity of fileCh (1000 in the code)
MaxSweepWorkers == 2 \* the largest -workers value and runtime.NumCPU() tried

SweepCandidateFiles ==
  JunkCandidateFiles \cup {<<"j", "d", "e", "t.tmp">>, <<"j", "e", "Thumbs.db">>}
SweepFilesystems == UNION {[S -> {1}] : S \in SUBSET SweepCandidateFiles}

\* Byte order of the entry names of the swept tree: os.ReadDir returns the
\* entries sorted by file name.
SweepNameRank ==
  [n \in {"Thumbs.db", "a.bak.txt", "d", "e", "t.tmp", "x"} |->
     CASE n = "Thumbs.db" -> 1 [] n = "a.bak.txt" -> 2 [] n = "d" -> 3
       [] n = "e" -> 4 [] n = "t.tmp" -> 5 [] n = "x" -> 6]
RECURSIVE SortEntries(_)
SortEntries(S) ==
  IF S = {} THEN <<>>
  ELSE LET first == CHOOSE p \in S : \A q \in S : SweepNameRank[Base(p)] <= SweepNameRank[Base(q)]
       IN <<first>> \o SortEntries(S \ {first})

\* Lines 38-40: a worker count of zero or less is replaced by
\* runtime.NumCPU().
workerCount(n, numCPU) == IF n <= 0 THEN numCPU ELSE n

\* Lines 57-65: the entries of dir a worker sends, in the order of the
\* listing: the regular files whose name matches a delete pattern.
matchingEntries(F, D, dir) ==
  SortEntries({p \in ReadDir(F, D, dir) : p \in DOMAIN F /\ matchesDeletePattern(Base(p))})

\* Lines 87-91: the entries of current the feeder appends to dirs.
subdirEntries(F, D, dir) == SortEntries({p \in ReadDir(F, D, dir) : p \in D})

IdleSweeper == [st |-> "idle", dir |-> EmptyPath, todo |-> <<>>]

\* A fault: fileCh is closed as soon as one worker is done.
sweepersDoneAny(ws) == \E w \in DOMAIN ws : ws[w].st = "exit"

\* Line 97: wg.Wait() returns when every worker has run its deferred
\* wg.Done().
sweepersDone(ws) == \A w \in DOMAIN ws : ws[w].st = "exit"

\* Line 72: close(dirCh) is deferred to the end of the feeder.
dirChClosed == feeder.st = "done"

\* A tree exists, some of its directories cannot be listed, and
\* scanFilesConcurrent(baseDir, workers) has made its channels and started
\* its goroutines.
SweepInit ==
  /\ files \in SweepFilesystems
  /\ dirs = JunkDirsOf(files)
  /\ files0 = files
  /\ dirs0 = dirs
  /\ DupekillIdle
  /\ TwinIdle
  /\ HashIdle
  /\ CacheIdle
  /\ scanner = ""
  /\ scanRoot = EmptyPath
  /\ scanTasks = [d \in {} |-> 0]
  /\ scanTreeFiles = <<>>
  /\ fileMap = [p \in {} |-> 0]
  /\ groups = [sz \in {} |-> <<>>]
  /\ wg = 0
  /\ mu = Unlocked
  /\ scanRuns = 0
  /\ firstScan = {}
  /\ unlistable \in SubsetsUpTo({d \in dirs : IsPrefix(JunkRoot, d)}, MaxUnlistable)
  /\ junkDir = JunkRoot
  /\ junkFound = <<>>
  /\ junkQueue = {}
  /\ \E n \in 0..MaxSweepWorkers, numCPU \in 1..MaxSweepWorkers :
       sweepers = [w \in 1..workerCount(n, numCPU) |-> IdleSweeper]
  /\ bfs = <<junkDir>>
  /\ feeder = [st |-> "send", current |-> EmptyPath]
  /\ dirCh = <<>>
  /\ fileCh = <<>>
  /\ fileChClosed = FALSE
  /\ pc = "sweep"
  /\ out = <<>>
  /\ ret = Running

sweepFixed == <<files, dirs, files0, dirs0, reference, cleanup, mode, moveTo, keepEmptyDirs,
                outPath, referenceFiles, allCleanupFiles, duplicates, linesRead, response,
                next, failed, ops, out, twinVars, scanVars, hashVars, junkDir, junkQueue,
                cacheVars>>

\* Feeder, lines 75-80: take the first directory of dirs and send it on
\* dirCh; the send waits while dirCh is full.
FeederSend ==
  /\ feeder.st = "send"
  /\ bfs # <<>>
  /\ Len(dirCh) < DirChCap
  /\ dirCh' = Append(dirCh, Head(bfs))
  /\ bfs' = Tail(bfs)
  /\ feeder' = [st |-> "read", current |-> Head(bfs)]
  /\ UNCHANGED <<sweepFixed, sweepers, fileCh, fileChClosed, junkFound, pc, ret>>

\* Feeder, lines 83-91: list current and append its subdirectories to dirs;
\* a directory that cannot be listed adds none.
FeederRead ==
  /\ feeder.st = "read"
  /\ bfs' = IF ReadDirFails(dirs, unlistable, feeder.current)
            THEN bfs
            ELSE bfs \o subdirEntries(files, dirs, feeder.current)
  /\ feeder' = [st |-> "send", current |-> EmptyPath]
  /\ UNCHANGED <<sweepFixed, sweepers, dirCh, fileCh, fileChClosed, junkFound, pc, ret>>

\* Feeder, lines 72 and 75: dirs is empty, the goroutine ends and its
\* deferred close(dirCh) runs.
FeederClose ==
  /\ feeder.st = "send"
  /\ bfs = <<>>
  /\ feeder' = [st |-> "done", current |-> EmptyPath]
  /\ UNCHANGED <<sweepFixed, sweepers, bfs, dirCh, fileCh, fileChClosed, junkFound, pc, ret>>

\* Worker, line 52: receive a directory from dirCh.
SweeperReceive(w) ==
  /\ sweepers[w].st = "idle"
  /\ dirCh # <<>>
  /\ sweepers' = [sweepers EXCEPT ![w] = [st |-> "got", dir |-> Head(dirCh), todo |-> <<>>]]
  /\ dirCh' = Tail(dirCh)
  /\ UNCHANGED <<sweepFixed, bfs, feeder, fileCh, fileChClosed, junkFound, pc, ret>>

\* Worker, lines 53-56: list the directory; on an error go on with the next
\* one.
SweeperReadDir(w) ==
  /\ sweepers[w].st = "got"
  /\ LET todo == IF ReadDirFails(dirs, unlistable, sweepers[w].dir)
                 THEN <<>>
                 ELSE matchingEntries(files, dirs, sweepers[w].dir)
     IN sweepers' = [sweepers EXCEPT ![w] =
                       IF todo = <<>> THEN IdleSweeper
                       ELSE [st |-> "send", dir |-> sweepers[w].dir, todo |-> todo]]
  /\ UNCHANGED <<sweepFixed, bfs, feeder, dirCh, fileCh, fileChClosed, junkFound, pc, ret>>

\* Worker, lines 57-65: send the next matching file on fileCh; the send
\* waits while fileCh is full.
SweeperSend(w) ==
  /\ sweepers[w].st = "send"
  /\ Len(fileCh) < FileChCap
  /\ fileCh' = Append(fileCh, Head(sweepers[w].todo))
  /\ sweepers' = [sweepers EXCEPT ![w] =
                    IF Len(sweepers[w].todo) = 1 THEN IdleSweeper
                    ELSE [@ EXCEPT !.todo = Tail(@)]]
  /\ UNCHANGED <<sweepFixed, bfs, feeder, dirCh, fileChClosed, junkFound, pc, ret>>

\* Worker, lines 51-52: dirCh is closed and drained, the range ends and the
\* deferred wg.Done() runs.
SweeperExit(w) ==
  /\ sweepers[w].st = "idle"
  /\ dirCh = <<>>
  /\ dirChClosed
  /\ sweepers' = [sweepers EXCEPT ![w] = [st |-> "exit", dir |-> EmptyPath, todo |-> <<>>]]
  /\ UNCHANGED <<sweepFixed, bfs, feeder, dirCh, fileCh, fileChClosed, junkFound, pc, ret>>

\* Lines 96-99: close(fileCh) after wg.Wait().
SweepCloseFiles ==
  /\ pc = "sweep"
  /\ ~fileChClosed
  /\ sweepersDone(sweepers)
  /\ fileChClosed' = TRUE
  /\ UNCHANGED <<sweepFixed, sweepers, bfs, feeder, dirCh, fileCh, junkFound, pc, ret>>

\* Lines 102-104: the caller receives a file from fileCh and appends it to
\* files.
SweepCollect ==
  /\ pc = "sweep"
  /\ fileCh # <<>>
  /\ junkFound' = Append(junkFound, Head(fileCh))
  /\ fileCh' = Tail(fileCh)
  /\ UNCHANGED <<sweepFixed, sweepers, bfs, feeder, dirCh, fileChClosed, pc, ret>>

\* Lines 102 and 106: fileCh is closed and drained, scanFilesConcurrent
\* returns files and a nil error.
SweepReturn ==
  /\ pc = "sweep"
  /\ fileCh = <<>>
  /\ fileChClosed
  /\ pc' = "swept"
  /\ ret' = ReturnNil
  /\ UNCHANGED <<sweepFixed, sweepers, bfs, feeder, dirCh, fileCh, fileChClosed, junkFound>>

SweepNext ==
  \/ FeederSend
  \/ FeederRead
  \/ FeederClose
  \/ \E w \in DOMAIN sweepers : SweeperReceive(w)
  \/ \E w \in DOMAIN sweepers : SweeperReadDir(w)
  \/ \E w \in DOMAIN sweepers : SweeperSend(w)
  \/ \E w \in DOMAIN sweepers : SweeperExit(w)
  \/ SweepCloseFiles
  \/ SweepCollect
  \/ SweepReturn

SweepSpec == SweepInit /\ [][SweepNext]_vars

\* The Go scheduler runs every goroutine that can take a step: the feeder,
\* each worker, the closer of fileCh and the collecting caller.
SweepFairness ==
  /\ WF_vars(FeederSend \/ FeederRead \/ FeederClose)
  /\ \A w \in 1..MaxSweepWorkers :
       WF_vars(w \in DOMAIN sweepers
               /\ (SweeperReceive(w) \/ SweeperReadDir(w) \/ SweeperSend(w) \/ SweeperExit(w)))
  /\ WF_vars(SweepCloseFiles)
  /\ WF_vars(SweepCollect \/ SweepReturn)

SweepLiveSpec == SweepSpec /\ SweepFairness

\* ---- Properties of scanFilesConcurrent
\* The matching files of the directories the scan reaches: baseDir and the
\* directories below it that can be listed, as can every directory between
\* them and baseDir.
SweepExpected == scanFilesConcurrent(files, dirs \ unlistable, junkDir)

\* Every goroutine of scanFilesConcurrent is over and the call has returned.
SweepFinished ==
  /\ pc = "swept"
  /\ ret = ReturnNil
  /\ feeder.st = "done"
  /\ \A w \in DOMAIN sweepers : sweepers[w].st = "exit"
  /\ fileChClosed
  /\ dirCh = <<>>
  /\ fileCh = <<>>

\* C37: scanFilesConcurrent terminates for every tree and worker count, also
\* when the tree holds more directories and files than dirCh and fileCh can
\* buffer: the feeder, every worker and the caller end and nothing is sent
\* on fileCh after it is closed; the slice returned holds each matching file
\* of every directory the scan can list exactly once.
C37_SweepTerminatesExactlyOnce ==
  /\ <>[]SweepFinished
  /\ [](pc = "swept" =>
          /\ Range(junkFound) = SweepExpected
          /\ Len(junkFound) = Cardinality(SweepExpected))
  /\ [][fileChClosed => fileChClosed' /\ Len(fileCh') <= Len(fileCh)]_vars

\* Two workers have swept a tree of four directories, one of which holding a
\* junk file cannot be listed, and the call has returned the four junk files
\* of the others.
C37_Witness ==
  /\ pc = "swept"
  /\ Len(sweepers) = 2
  /\ unlistable = {<<"j", "d", "e">>}
  /\ <<"j", "d", "e", "t.tmp">> \in DOMAIN files
  /\ Len(junkFound) = 4
  /\ Len(junkFound) > FileChCap + DirChCap
  /\ <<"j", "x">> \in DOMAIN files

\* =================================================================
\* Part 7: cachewhack (internal/cachewhack/cachewhack.go).
\* =================================================================
\* systemScanRoots: an unlimited root, a root scanned one level deep, and a
\* root whose own name is a cache name (as /tmp, %LOCALAPPDATA% and ~/.cache).
CacheTmp == <<"tmp">>
CacheLocal == <<"local">>
CacheHome == <<"home", ".cache">>
systemScanRoots ==
  <<[path |-> CacheTmp, maxDepth |-> 0],
    [path |-> CacheLocal, maxDepth |-> 1],
    [path |-> CacheHome, maxDepth |-> 0]>>

CacheCandidateFiles ==
  {<<"tmp", "pip", "f">>, <<"tmp", "data", "GPUCache", "f">>, <<"tmp", "Package Cache", "f">>,
   <<"local", "Cache", "f">>, <<"local", "data", "Cache", "f">>, <<"home", ".cache", "f">>}
CacheFilesystems == UNION {[S -> {1}] : S \in SUBSET CacheCandidateFiles}
CacheDirsOf(F) == {CacheTmp} \cup UNION {Ancestors(p) : p \in DOMAIN F}

\* strings.ToLower(name), and the lowered name cut where a pattern may begin
\* or end.
CacheLower ==
  [n \in {"tmp", "local", "home", ".cache", "pip", "data", "GPUCache", "Package Cache", "Cache", "f"} |->
     CASE n = "GPUCache" -> "gpucache"
       [] n = "Package Cache" -> "package cache"
       [] n = "Cache" -> "cache"
       [] OTHER -> n]
CacheSegments ==
  [n \in {"tmp", "local", "home", ".cache", "pip", "data", "gpucache", "package cache", "cache", "f"} |->
     CASE n = ".cache" -> <<".", "cache">>
       [] n = "gpucache" -> <<"gpu", "cache">>
       [] n = "package cache" -> <<"package ", "cache">>
       [] OTHER -> <<n>>]
\* Byte order of the entry names: filepath.WalkDir visits the entries of a
\* directory in lexical order.
CacheNameRank ==
  [n \in DOMAIN CacheLower |->
     CASE n = ".cache" -> 1 [] n = "Cache" -> 2 [] n = "GPUCache" -> 3
       [] n = "Package Cache" -> 4 [] n = "data" -> 5 [] n = "f" -> 6
       [] n = "home" -> 7 [] n = "local" -> 8 [] n = "pip" -> 9 [] n = "tmp" -> 10]
RECURSIVE SortCacheEntries(_)
SortCacheEntries(S) ==
  IF S = {} THEN <<>>
  ELSE LET first == CHOOSE p \in S : \A q \in S : CacheNameRank[Base(p)] <= CacheNameRank[Base(q)]
       IN <<first>> \o SortCacheEntries(S \ {first})

\* matchCacheFolder, lines 75-82: the patterns without a star, the pattern
\* *cache*, and the patterns that end in a star.
ExactPatterns ==
  {"cache", "glcache", "inetcache", "webcache", "cacheddata", "npm-cache", "pip",
   "consentoptions", "webkit", "code cache", "gpucache", "bluestacks", "pypa",
   "squirreltemp", "go", "go-build", "vcpkg"}
ContainsPatterns == {"cache"}
PrefixPatterns == {"tempzxpsign", "photoshop temp", "adobetemp", "bridgecache"}

\* matchCacheFolder(name), lines 67-90.
matchCacheFolder(name) ==
  LET lower == CacheLower[name]
      segs == CacheSegments[lower]
  IN IF lower = "package cache" \/ lower = "slstore" THEN FALSE
     ELSE \/ lower \in ExactPatterns
          \/ \E k \in 1..Len(segs) : segs[k] \in ContainsPatterns
          \/ segs[1] \in PrefixPatterns

\* depth(root, path), lines 93-99.
depth(root, path) == Len(path) - Len(root)

\* findWhackable, lines 120-132: filepath.WalkDir from path. A directory
\* deeper than maxDepth is skipped (and a file deeper than maxDepth ends the
\* walk of its directory); a directory with a cache name is appended and
\* not entered.
RECURSIVE walkDir(_, _, _, _)
RECURSIVE walkEntries(_, _, _, _)
walkEntries(F, D, sr, entries) ==
  IF entries = <<>> THEN <<>>
  ELSE LET path == Head(entries)
       IN IF sr.maxDepth > 0 /\ depth(sr.path, path) > sr.maxDepth
          THEN IF path \in D THEN walkEntries(F, D, sr, Tail(entries)) ELSE <<>>
          ELSE walkDir(F, D, sr, path) \o walkEntries(F, D, sr, Tail(entries))
walkDir(F, D, sr, path) ==
  IF path \notin D THEN <<>>
  ELSE IF path # sr.path /\ matchCacheFolder(Base(path)) THEN <<path>>
  ELSE walkEntries(F, D, sr, SortCacheEntries(ReadDir(F, D, path)))

\* findWhackable, lines 102-136.
RECURSIVE findWhackableFrom(_, _, _)
findWhackableFrom(F, D, k) ==
  IF k > Len(systemScanRoots) THEN <<>>
  ELSE LET sr == systemScanRoots[k]
           found == IF sr.path \notin D THEN <<>>
                    ELSE IF matchCacheFolder(Base(sr.path)) THEN <<sr.path>>
                    ELSE walkDir(F, D, sr, sr.path)
       IN found \o findWhackableFrom(F, D, k + 1)
findWhackable(F, D) == findWhackableFrom(F, D, 1)

\* run, lines 239-241: without --force the run is a dry run.
dryRun(f) == ~f

\* run, lines 294-300: the run goes on to whack unless a line was read that
\* is neither y nor yes.
Aborted(ok, input) == ok /\ input # "y" /\ input # "yes"

\* os.RemoveAll(p): p and everything below it are gone.
RemoveAllFiles(F, p) == Restrict(F, {q \in DOMAIN F : ~IsPrefix(p, q)})
RemoveAllDirs(D, p) == {d \in D : ~IsPrefix(p, d)}
\* emptyDir(p), lines 139-150: everything below p is gone, p stays.
emptyDirDirs(D, p) == {d \in D : d = p \/ ~IsPrefix(p, d)}

\* The cache folders and other files exist; cachewhack has not run yet.
CacheInit ==
  /\ files \in CacheFilesystems
  /\ dirs = CacheDirsOf(files)
  /\ files0 = files
  /\ dirs0 = dirs
  /\ DupekillIdle
  /\ TwinIdle
  /\ ScanIdle
  /\ HashIdle
  /\ JunkIdle
  /\ SweepIdle
  /\ force \in BOOLEAN
  /\ empty \in BOOLEAN
  /\ targets = <<>>
  /\ whackLeft = {}
  /\ scanned = FALSE
  /\ pc = "cache"
  /\ out = <<>>
  /\ ret = Running

cacheFixed == <<files0, dirs0, reference, cleanup, mode, moveTo, keepEmptyDirs, outPath,
                referenceFiles, allCleanupFiles, duplicates, next, failed,
                twinVars, scanVars, hashVars, junkVars, sweepVars, force, empty>>

\* "empty" or "delete", lines 254-259 and 285-290.
WhackWord(e) == IF e THEN "empty" ELSE "delete"
RECURSIVE WouldWhackLines(_, _)
WouldWhackLines(e, ts) ==
  IF ts = <<>> THEN <<>>
  ELSE <<<<"[dry-run] would", WhackWord(e), Head(ts)>>>> \o WouldWhackLines(e, Tail(ts))

\* run, lines 238-291: find the targets; return when there is none; list
\* them and return when the run is a dry run; else print the warning and the
\* prompt. (The sizes printed are left out.)
CacheRun ==
  /\ pc = "cache"
  /\ LET found == findWhackable(files, dirs)
     IN /\ targets' = found
        /\ IF Len(found) = 0
           THEN /\ out' = <<<<"No cache folders found to whack.">>>>
                /\ ret' = ReturnNil
                /\ pc' = "cacheDone"
           ELSE IF dryRun(force)
           THEN /\ out' = <<<<"Found cache folders", Len(found)>>>> \o WouldWhackLines(empty, found)
                            \o <<<<"Re-run with --force to actually delete/empty.">>>>
                /\ ret' = ReturnNil
                /\ pc' = "cacheDone"
           ELSE /\ out' = <<<<"Found cache folders", Len(found)>>,
                            <<"This will", WhackWord(empty), Len(found)>>,
                            <<"This is irreversible. Continue? (y/N): ">>>>
                /\ ret' = ret
                /\ pc' = "cachePrompt"
  /\ UNCHANGED <<cacheFixed, files, dirs, whackLeft, scanned, linesRead, response, ops>>

ReadError == "<read error>"

\* run, lines 293-305: one line is read. When a line was read and it is
\* neither y nor yes the run is aborted; a read error is returned; else
\* whack(targets) starts one goroutine per target.
CacheAnswer ==
  /\ pc = "cachePrompt"
  /\ \E line \in Lines \cup {EOF, ReadError} :
       LET ok == line \notin {EOF, ReadError}
           input == IF ok THEN TrimLower(line) ELSE ""
       IN /\ scanned' = ok
          /\ response' = input
          /\ linesRead' = IF ok THEN linesRead + 1 ELSE linesRead
          /\ IF Aborted(ok, input)
             THEN /\ out' = Append(out, <<"Aborted.">>)
                  /\ ret' = ReturnNil
                  /\ pc' = "cacheDone"
                  /\ whackLeft' = whackLeft
             ELSE IF line = ReadError
             THEN /\ out' = out
                  /\ ret' = ReturnErr(<<"read error">>)
                  /\ pc' = "cacheDone"
                  /\ whackLeft' = whackLeft
             ELSE /\ out' = out
                  /\ ret' = ret
                  /\ pc' = "whack"
                  /\ whackLeft' = Range(targets)
  /\ UNCHANGED <<cacheFixed, files, dirs, targets, ops>>

\* whack, lines 157-186: the goroutine of one target empties or deletes it
\* (whack is reached only when dryRun is false). The call may fail, leaving
\* the target as it is.
CacheWhack ==
  /\ pc = "whack"
  /\ \E p \in whackLeft, err \in {"", "EPERM"} :
       /\ err = "EPERM" => EnvFailures(ops) < MaxEnvFail
       /\ ops' = Append(ops, [op |-> IF empty THEN "emptyDir" ELSE "RemoveAll",
                              path |-> p, dest |-> EmptyPath, err |-> err])
       /\ files' = IF err = "" THEN RemoveAllFiles(files, p) ELSE files
       /\ dirs' = IF err # "" THEN dirs
                  ELSE IF empty THEN emptyDirDirs(dirs, p) ELSE RemoveAllDirs(dirs, p)
       /\ whackLeft' = whackLeft \ {p}
  /\ UNCHANGED <<cacheFixed, targets, scanned, linesRead, response, out, ret, pc>>

\* whack, line 188, and run, lines 306-307.
CacheDone ==
  /\ pc = "whack"
  /\ whackLeft = {}
  /\ out' = Append(out, <<"System cache whack complete.">>)
  /\ ret' = ReturnNil
  /\ pc' = "cacheDone"
  /\ UNCHANGED <<cacheFixed, files, dirs, targets, whackLeft, scanned, linesRead, response, ops>>

CacheNext ==
  \/ CacheRun
  \/ CacheAnswer
  \/ CacheWhack
  \/ CacheDone

CacheSpec == CacheInit /\ [][CacheNext]_vars

\* ---- Properties of cachewhack
\* C38: cachewhack deletes or empties a folder only when --force was given
\* and the line read at the prompt was y or yes; after any other answer, an
\* empty line or the end of input, and without --force, every folder and
\* file is as it was.
C38_WhackOnlyAfterYes ==
  (ops # <<>> \/ files # files0 \/ dirs # dirs0) =>
    /\ force
    /\ scanned
    /\ response \in {"y", "yes"}
====
